---- MODULE Spec2Model ----
(***************************************************************************)
(* Order-execution pipeline of the Saxo trade bot: SaxoTradeExecutor,      *)
(* InstrumentValidator, PositionManager / PositionAwareGuards,             *)
(* PrecheckClient, DisclaimerService, OrderPlacementClient and the POST of *)
(* SaxoClient.  One caller invokes one public operation at a time; every   *)
(* remote call is one step, and its outcome is chosen by the venue.        *)
(*                                                                         *)
(* Specifications: Spec is the executor with its callers invoking execute; *)
(* SpecDisclaimers and SpecPlacement are DisclaimerService and             *)
(* OrderPlacementClient with their callers invoking evaluate_disclaimers   *)
(* and place_order; SpecFinal is _determine_final_status on its own;       *)
(* SpecGuards is PositionManager with PositionAwareGuards, their callers   *)
(* invoking get_positions, evaluate_buy_intent and evaluate_sell_intent;   *)
(* SpecConcurrentGuards is evaluate_buy_intent called by several threads   *)
(* on one PositionManager; SpecTransport is SaxoClient's get_with_headers  *)
(* and post; SpecPrecheck is PrecheckClient.execute_precheck; SpecCaches   *)
(* is the validator and the disclaimer service called while time passes;   *)
(* SpecValidateAmount and SpecRetryDelay are validate_amount and           *)
(* get_best_retry_delay on their own.                                      *)
(*                                                                         *)
(* Conventions: Python None is the string "None" for optional strings and  *)
(* 0 for optional integers; an optional record is a record of the same     *)
(* shape with its fields set to "None".  uuid4() is a counter.  Quantities *)
(* are whole numbers.                                                      *)
(***************************************************************************)
EXTENDS Integers, Sequences, FiniteSets, TLC

None == "None"

\* ---------------------------------------------------------------- bounds
\* invocations of a component's operation in one behaviour
MaxInvocations == 2
\* invocations of execute in one behaviour
MaxExecutions == 1
\* invocations of the guards and of get_positions in one behaviour
MaxGuardCalls == 3
\* invocations of the SaxoClient request methods in one behaviour
MaxTransportCalls == 1
\* highest attempt number get_best_retry_delay is called with on its own
MaxAttempt == 7
\* guard calls that run side by side on one PositionManager
NumThreads == 2
NumTokens == 2
MaxTokenList == 2
TickSeconds == 300
MaxTime == 600

\* ------------------------------------------------------ program constants
disclaimer_cache_ttl_seconds == 300
instrument_cache_ttl == 600
position_cache_ttl == 30
MAX_RETRIES == 3
BASE_BACKOFF_SECONDS == 1
MAX_BACKOFF_SECONDS == 60
RETRYABLE_STATUS_CODES == {429, 500, 502, 503, 504}
precheck_max_retries == 1
retry_on_status == {429, 500, 502, 503, 504}

SessionClientKey == "ck"
SessionAccountKey == "ak"

Tokens == 1..NumTokens

RECURSIVE SeqsUpTo(_, _)
SeqsUpTo(S, n) ==
    IF n = 0 THEN {<<>>}
    ELSE LET shorter == SeqsUpTo(S, n - 1)
         IN  shorter \cup {Append(s, x) : s \in {t \in shorter : Len(t) = n - 1}, x \in S}

\* ---------------------------------------------------------------- state
VARIABLES
    pc,                 \* position of the running invocation
    entry,              \* public operation the caller invoked
    invocations,        \* invocations started so far
    now,                \* time.time()
    uuid_next,          \* next value uuid.uuid4() returns
    calls,              \* remote calls of the running invocation, in order
    intent,             \* the OrderIntent object handed in
    dry_run,            \* execute's dry_run / PlacementConfig.dry_run
    policy,             \* DisclaimerConfig.policy
    disc_cache,         \* DisclaimerService._cache
    precheck_result,    \* PrecheckOutcome handed on between stages
    pre_attempt,        \* loop variable of _execute_precheck_with_retry
    disc_i,             \* loop index of the fetch / accept loops
    details_list,       \* _fetch_disclaimer_details_batch's details_list
    accepted,           \* _auto_accept_disclaimers' accepted
    errors,             \* _auto_accept_disclaimers' errors (tokens)
    disclaimer_outcome, \* DisclaimerResolutionOutcome returned
    placement_outcome,  \* PlacementOutcome
    reconciliation,     \* ReconciliationOutcome
    execution_outcome,  \* ExecutionOutcome returned by place_order
    result,             \* what execute returned or raised
    inst_cache,         \* InstrumentValidator._cache, the entry of the instrument
    pos_cache,          \* PositionManager._position_cache, the row of the instrument
    pos_cache_ts,       \* PositionManager._cache_timestamp
    last_query_failed,  \* PositionManager._last_query_failed
    guard_cfg,          \* ExecutionConfig of the guards
    done_log,           \* outcomes of the invocations that returned
    response_data,      \* what the placement POST brought back
    guard_input,        \* arguments of the running guard / get_positions call
    returned_positions, \* what get_positions returned, the row of the instrument
    guard_result,       \* PositionGuardResult returned
    caller_keys,        \* client_key / account_key of the intent as execute's caller built it
    transport,          \* locals and outcome of the running SaxoClient request
    orders_data,        \* what the reconciliation query brought back
    calc,               \* arguments and result of a function called on its own
    threads             \* locals of the guard calls that run side by side

vars == <<pc, entry, invocations, now, uuid_next, calls, intent, dry_run, policy,
          disc_cache, precheck_result, pre_attempt, disc_i, details_list, accepted,
          errors, disclaimer_outcome, placement_outcome, reconciliation,
          execution_outcome, result, inst_cache, pos_cache, pos_cache_ts,
          last_query_failed, guard_cfg, done_log, response_data, guard_input,
          returned_positions, guard_result, caller_keys, transport, orders_data,
          calc, threads>>

\* ------------------------------------------------------------ remote calls
Call(method, path, arg, req, out) ==
    [method |-> method, path |-> path, arg |-> arg, req |-> req, out |-> out]

PlacementPath == "/trade/v2/orders"
InfoPricesPath == "/trade/v1/infoprices/list"
PrecheckPath == "/trade/v2/orders/precheck"
DisclaimerPath == "/dm/v2/disclaimers"
OrdersPath == "/port/v1/orders"
NetPositionsPath == "/port/v1/netpositions"
InstrumentPath == "/ref/v1/instruments/details"

CountCalls(log, method, path) ==
    Cardinality({i \in 1..Len(log) : log[i].method = method /\ log[i].path = path})

\* What the network does to one POST: a 2xx answer with a JSON body, a 2xx answer
\* with no text, an error status, a timeout, a connection failure, a body that is
\* no JSON.
RawPostOutcomes ==
    {"json", "empty", "http400", "http401", "http403", "http429", "http500",
     "timeout", "connection_error", "bad_json"}

HttpStatusOf(raw) ==
    CASE raw = "http400" -> 400
      [] raw = "http401" -> 401
      [] raw = "http403" -> 403
      [] raw = "http404" -> 404
      [] raw = "http429" -> 429
      [] raw = "http500" -> 500
      [] raw = "http502" -> 502
      [] raw = "http503" -> 503
      [] raw = "http504" -> 504
      [] OTHER -> 200

\* SaxoClient.post: returns the body on 2xx; 401/403 raise SaxoAuthenticationError
\* (no status_code attribute); other statuses raise SaxoAPIError carrying the
\* status; a timeout, any other request failure and a non-JSON body raise
\* SaxoAPIError with status_code None.
Post(raw) ==
    CASE raw \in {"json", "empty"} -> [kind |-> "return", exc |-> None, status_code |-> 0]
      [] raw \in {"http401", "http403"} ->
            [kind |-> "raise", exc |-> "SaxoAuthenticationError", status_code |-> 0]
      [] raw \in {"http400", "http429", "http500"} ->
            [kind |-> "raise", exc |-> "SaxoAPIError", status_code |-> HttpStatusOf(raw)]
      [] OTHER -> [kind |-> "raise", exc |-> "SaxoAPIError", status_code |-> 0]

\* getattr(e, "status_code", 500): the attribute when the exception has one
\* (None, here 0, for a SaxoAPIError built without it), else 500.
StatusCodeAttr(r) ==
    IF r.exc = "SaxoAPIError" THEN r.status_code ELSE 500

\* ------------------------------------------- SaxoClient.get_with_headers
\* What requests.get does on one attempt: a response (2xx with a JSON body or
\* with a body that is not JSON, or an error status), or an exception.
RawGetOutcomes ==
    {"json", "bad_json", "http400", "http401", "http403", "http404", "http429",
     "http500", "http502", "http503", "http504", "timeout", "connection_error"}

IsResponse(raw) == raw \notin {"timeout", "connection_error"}

\* The Retry-After header of a response: absent, a number, or another text.
RetryAfter(kind, value) == [kind |-> kind, value |-> value]
NoRetryAfter == RetryAfter("absent", 0)

\* parse_rate_limit_headers: the dimensions that came with a reset value, as
\* pairs <<dimension, reset>>; {} when the response had no X-RateLimit header.
RateLimitInfos ==
    {{}, {<<"session", 5>>}, {<<"session", 0>>, <<"appday", 7>>},
     {<<"session", 5>>, <<"appday", 3>>}}

\* Headers of a response.
ResponseHeaders ==
    {[retry_after |-> NoRetryAfter, rate |-> r] : r \in RateLimitInfos}
    \cup {[retry_after |-> RetryAfter("numeric", 2), rate |-> {<<"session", 5>>}],
          [retry_after |-> RetryAfter("invalid", 0), rate |-> {<<"session", 5>>}],
          [retry_after |-> RetryAfter("numeric", 2), rate |-> {}]}
NoHeaders == [retry_after |-> NoRetryAfter, rate |-> {}]

Min(S) == CHOOSE x \in S : \A y \in S : x <= y
RECURSIVE Pow2(_)
Pow2(n) == IF n = 0 THEN 1 ELSE 2 * Pow2(n - 1)

\* Delays are counted in half seconds.
HalfSeconds(seconds) == 2 * seconds

RetryDelay(source, delay) == [source |-> source, delay |-> delay]
NoRetryDelay == RetryDelay(None, 0)

\* random.uniform(-JITTER_FACTOR, JITTER_FACTOR) * base_delay: every draw in
\* half seconds, and the draws the retry loop is run with (both ends, the middle).
AllJitters(attempt) ==
    (-(HalfSeconds(BASE_BACKOFF_SECONDS * Pow2(attempt)) \div 2))
        .. (HalfSeconds(BASE_BACKOFF_SECONDS * Pow2(attempt)) \div 2)
Jitters(attempt) ==
    {-(HalfSeconds(BASE_BACKOFF_SECONDS * Pow2(attempt)) \div 2), 0,
     HalfSeconds(BASE_BACKOFF_SECONDS * Pow2(attempt)) \div 2}

GetBestMutNoFloor(retry_after, rate_limit_info, attempt, jitter) ==
    IF retry_after.kind = "numeric"
    THEN RetryDelay("retry_after", HalfSeconds(retry_after.value))
    ELSE LET resets == {p[2] : p \in rate_limit_info}
         IN  IF resets # {} /\ Min(resets) > 0
             THEN RetryDelay("reset", HalfSeconds(Min(resets) + 1))
             ELSE LET base_delay == HalfSeconds(BASE_BACKOFF_SECONDS * Pow2(attempt))
                  IN  RetryDelay("backoff",
                                 IF base_delay + jitter < HalfSeconds(MAX_BACKOFF_SECONDS)
                                 THEN base_delay + jitter
                                 ELSE HalfSeconds(MAX_BACKOFF_SECONDS))

\* get_best_retry_delay(response, rate_limit_info, attempt): retry_after is the
\* Retry-After header of `response` (absent when response is None); jitter is
\* what random.uniform brings.
GetBestRetryDelay(retry_after, rate_limit_info, attempt, jitter) ==
    IF retry_after.kind = "numeric"
    THEN RetryDelay("retry_after", HalfSeconds(retry_after.value))
    ELSE LET resets == {p[2] : p \in rate_limit_info}
         IN  IF resets # {} /\ Min(resets) > 0
             THEN RetryDelay("reset", HalfSeconds(Min(resets) + 1))
             ELSE LET base_delay == HalfSeconds(BASE_BACKOFF_SECONDS * Pow2(attempt))
                      capped == IF base_delay + jitter < HalfSeconds(MAX_BACKOFF_SECONDS)
                                THEN base_delay + jitter
                                ELSE HalfSeconds(MAX_BACKOFF_SECONDS)
                  IN  RetryDelay("backoff",
                                 IF capped > HalfSeconds(1) THEN capped ELSE HalfSeconds(1))

\* What one call of the client gave its caller: the parsed body (kind "return")
\* or an exception (kind "raise") with the attributes it was built with;
\* cause is the underlying failure its message quotes.
TransportOutcome(kind, exc, status_code, rate_limit_info, retry_after, cause) ==
    [kind |-> kind, exc |-> exc, status_code |-> status_code,
     rate_limit_info |-> rate_limit_info, retry_after |-> retry_after, cause |-> cause]
NoTransportOutcome == TransportOutcome(None, None, 0, {}, 0, None)

\* _handle_http_error_response(response, path, rate_limit_info)
HandleHttpErrorResponse(status_code, rate_limit_info) ==
    IF status_code \in {401, 403}
    THEN TransportOutcome("raise", "SaxoAuthenticationError", 0, {}, 0, None)
    ELSE TransportOutcome("raise", "SaxoAPIError", status_code, rate_limit_info, 0, None)

\* The locals of get_with_headers between two attempts, and what it delivered.
Transport(attempt, max_retries, last_rate_info, last_error, has_response,
          response_retry_after, delay, outcome) ==
    [attempt |-> attempt, max_retries |-> max_retries, last_rate_info |-> last_rate_info,
     last_error |-> last_error, has_response |-> has_response,
     response_retry_after |-> response_retry_after, delay |-> delay,
     outcome |-> outcome]
NoTransport == Transport(0, 0, {}, None, FALSE, NoRetryAfter, NoRetryDelay, NoTransportOutcome)

MayRetryMutAnyFailure(raw, attempt, max_retries) ==
    attempt < max_retries

\* A request whose status is in RETRYABLE_STATUS_CODES or that ended in
\* Timeout / ConnectionError goes round the loop again while attempts are left.
MayRetry(raw, attempt, max_retries) ==
    /\ attempt < max_retries
    /\ \/ ~IsResponse(raw)
       \/ HttpStatusOf(raw) \in RETRYABLE_STATUS_CODES

\* One pass of the loop `for attempt in range(max_retries + 1)` of
\* get_with_headers, t the locals before it: the request brought raw with the
\* headers hdr.  outcome.kind stays None when the loop goes on.
GetAttempt(t, raw, hdr, jitter) ==
    LET status == HttpStatusOf(raw)
        retry_after == IF raw = "connection_error" THEN NoRetryAfter
                       ELSE IF raw = "timeout" THEN t.response_retry_after
                       ELSE hdr.retry_after
        last_rate_info == IF IsResponse(raw) THEN hdr.rate ELSE t.last_rate_info
        delay == GetBestRetryDelay(retry_after, last_rate_info, t.attempt, jitter)
        waits == (~IsResponse(raw)) \/ status \in RETRYABLE_STATUS_CODES
        outcome ==
            IF raw = "json" THEN TransportOutcome("return", None, 200, hdr.rate, 0, None)
            ELSE IF raw = "bad_json"
            THEN TransportOutcome("raise", "SaxoAPIError", 0, {}, 0, "bad_json")
            ELSE IF MayRetry(raw, t.attempt, t.max_retries) THEN NoTransportOutcome
            ELSE IF ~IsResponse(raw)
            THEN TransportOutcome("raise", "SaxoAPIError", 0, {}, 0, raw)
            ELSE IF status = 429
            THEN TransportOutcome("raise", "SaxoRateLimitError", 429, hdr.rate,
                                  delay.delay \div 2, None)
            ELSE HandleHttpErrorResponse(status, hdr.rate)
    IN  Transport(IF outcome.kind = None THEN t.attempt + 1 ELSE t.attempt,
                  t.max_retries, last_rate_info,
                  IF raw \in {"timeout", "connection_error", "bad_json"} THEN raw
                  ELSE t.last_error,
                  t.has_response \/ IsResponse(raw),
                  IF IsResponse(raw) THEN hdr.retry_after ELSE t.response_retry_after,
                  IF waits THEN delay ELSE t.delay,
                  outcome)

\* SaxoClient.post / SaxoClient.delete: one request, no loop.  The rate limit
\* headers of an error response are read only `if response`, and a Response
\* with an error status is falsy.
SingleRequest(raw) ==
    IF raw \in {"json", "empty"} THEN TransportOutcome("return", None, 200, {}, 0, None)
    ELSE IF raw = "timeout" THEN TransportOutcome("raise", "SaxoAPIError", 0, {}, 0, None)
    ELSE IF raw \in {"connection_error", "bad_json"}
    THEN TransportOutcome("raise", "SaxoAPIError", 0, {}, 0, raw)
    ELSE HandleHttpErrorResponse(HttpStatusOf(raw), {})

\* ------------------------------------------------------------- data model
NoErrorInfo == [error_code |-> None, message |-> None]
ErrorInfo(code, msg) == [error_code |-> code, message |-> msg]

NoPreTradeDisclaimers ==
    [present |-> FALSE, disclaimer_context |-> None, disclaimer_tokens |-> <<>>]
PreTradeDisclaimers(ctx, toks) ==
    [present |-> TRUE, disclaimer_context |-> ctx, disclaimer_tokens |-> toks]

\* raw_response of an outcome that was built without one (None).
NoRawResponse ==
    [ErrorInfo |-> None, Costs |-> None, PreTradeDisclaimers |-> NoPreTradeDisclaimers]

\* PrecheckOutcome: the attributes are ok, error_info, pre_trade_disclaimers,
\* http_status, request_id and raw_response (the cost estimates are not read by
\* any later stage).
PrecheckOutcome(ok, ei, ptd, status, req) ==
    [ok |-> ok, error_info |-> ei, pre_trade_disclaimers |-> ptd,
     http_status |-> status, request_id |-> req,
     raw_response |-> NoRawResponse]

\* PrecheckOutcome(..., raw_response = data)
WithRawResponse(outcome, data) == [outcome EXCEPT !.raw_response = data]

NoPrecheckOutcome == PrecheckOutcome(FALSE, NoErrorInfo, NoPreTradeDisclaimers, 0, 0)

\* response_options: the Value of each option offered.
DisclaimerDetails(tok, blocking, title, options) ==
    [disclaimer_token |-> tok, is_blocking |-> blocking, title |-> title,
     response_options |-> options]

DisclaimerResolutionOutcome(allow, blocking, normal, auto, errs, pol) ==
    [allow_trading |-> allow, blocking_disclaimers |-> blocking,
     normal_disclaimers |-> normal, auto_accepted |-> auto, errors |-> errs,
     policy_applied |-> pol]
NoDisclaimerOutcome == DisclaimerResolutionOutcome(FALSE, <<>>, <<>>, <<>>, <<>>, None)

ExecutionResult(status, order_id, msg, needs) ==
    [kind |-> "return", status |-> status, order_id |-> order_id,
     error_message |-> msg, needs_reconciliation |-> needs]
Raised(exc) ==
    [kind |-> "raise", status |-> exc, order_id |-> None,
     error_message |-> None, needs_reconciliation |-> FALSE]
NoResult ==
    [kind |-> None, status |-> None, order_id |-> None,
     error_message |-> None, needs_reconciliation |-> FALSE]

Policies == {"block_all", "auto_accept_normal", "manual_review"}

\* ---------------------------------------------------- DisclaimerService
NoCacheEntry ==
    [present |-> FALSE, details |-> DisclaimerDetails(0, TRUE, None, {}), cached_at |-> 0]

\* What GET /dm/v2/disclaimers does for one token: the call raises; the answer has
\* no Data; Data[0] has IsBlocking true, false, or no IsBlocking key.  A record
\* with IsBlocking false offers the response "Accepted" and has no Conditions
\* ("normal"), has Conditions that ask for user input ("normal_conditions"), or
\* does not offer "Accepted" ("normal_no_accepted").
DmFetchOutcomes ==
    {"exception", "no_data", "blocking", "normal", "no_flag",
     "normal_conditions", "normal_no_accepted"}

DmNormalOutcomes == {"normal", "normal_conditions", "normal_no_accepted"}

\* What the call log keeps of the answer.
DmFetchLogged(out) ==
    CASE out \in {"exception", "no_data"} -> "failed"
      [] out = "normal_conditions" -> "conditions"
      [] out = "normal_no_accepted" -> "no_accepted"
      [] OTHER -> "data"

DmFetchFailed(out) == out \in {"exception", "no_data"}

\* is_blocking=bool(disclaimer_item.get("IsBlocking", True)); Data[0] carries the
\* token that was asked for.
ParseDisclaimerItem(tok, out) ==
    DisclaimerDetails(tok, out \notin DmNormalOutcomes, "title",
                      IF out = "normal_no_accepted" THEN {"Rejected"}
                      ELSE {"Accepted", "Rejected"})

UnknownMutNormal(tok) == DisclaimerDetails(tok, FALSE, "Unknown Disclaimer", {})

\* The except branch of _fetch_disclaimer_details_batch.
UnknownDisclaimer(tok) == DisclaimerDetails(tok, TRUE, "Unknown Disclaimer", {})

\* an entry as old as the TTL still served
CacheHitMutInclusive(cache, tok, t) ==
    /\ cache[tok].present
    /\ t - cache[tok].cached_at <= disclaimer_cache_ttl_seconds

CacheHit(cache, tok, t) ==
    /\ cache[tok].present
    /\ t - cache[tok].cached_at < disclaimer_cache_ttl_seconds

IsBlocking(d) == d.is_blocking
IsNormal(d) == ~d.is_blocking
TokenOf(d) == d.disclaimer_token
TokensOf(ds) == [i \in 1..Len(ds) |-> TokenOf(ds[i])]

Blocking(ds) == SelectSeq(ds, IsBlocking)
Normal(ds) == SelectSeq(ds, IsNormal)

ClassifyMutPolicyFirst(ds, pol) ==
    IF pol = "auto_accept_normal"
    THEN [next |-> "accept", outcome |-> NoDisclaimerOutcome]
    ELSE [next |-> "return",
          outcome |-> DisclaimerResolutionOutcome(
              FALSE, TokensOf(Blocking(ds)), TokensOf(Normal(ds)), <<>>, <<>>, pol)]

\* evaluate_disclaimers once the details are known and no acceptance call is
\* needed: blocking first, then the policy.  "accept" says that the acceptance
\* loop has to run.
ClassifyDisclaimers(ds, pol) ==
    IF Blocking(ds) # <<>>
    THEN [next |-> "return",
          outcome |-> DisclaimerResolutionOutcome(
              FALSE, TokensOf(Blocking(ds)), TokensOf(Normal(ds)), <<>>, <<>>, pol)]
    ELSE IF pol = "auto_accept_normal"
    THEN [next |-> "accept", outcome |-> NoDisclaimerOutcome]
    ELSE [next |-> "return",
          outcome |-> DisclaimerResolutionOutcome(
              FALSE, <<>>, TokensOf(Normal(ds)), <<>>, <<>>, pol)]

AfterMutIgnoreErrors(ds, acc, errs, pol) ==
    DisclaimerResolutionOutcome(TRUE, <<>>, TokensOf(Normal(ds)), acc, <<>>, pol)

\* evaluate_disclaimers after _auto_accept_disclaimers returned.
AfterAutoAccept(ds, acc, errs, pol) ==
    IF errs # <<>>
    THEN DisclaimerResolutionOutcome(FALSE, <<>>, TokensOf(Normal(ds)), acc, errs, pol)
    ELSE DisclaimerResolutionOutcome(TRUE, <<>>, TokensOf(Normal(ds)), acc, <<>>, pol)

AllowAll(pol) == DisclaimerResolutionOutcome(TRUE, <<>>, <<>>, <<>>, <<>>, pol)

\* ------------------------------------------------- OrderPlacementClient
PlacementOutcome(status, order_id, ei, http, req, needs) ==
    [status |-> status, order_id |-> order_id, error_info |-> ei,
     http_status |-> http, request_id |-> req, requires_reconciliation |-> needs]
NoPlacementOutcome == PlacementOutcome(None, None, NoErrorInfo, 0, 0, FALSE)

ReconciliationOutcome(status, order_id, order_status) ==
    [status |-> status, order_id |-> order_id, order_status |-> order_status]
\* reconciliation = None
NoReconciliation == ReconciliationOutcome(None, None, None)

ExecutionOutcome(placement, recon, final, order_id, ref) ==
    [placement |-> placement, reconciliation |-> recon, final_status |-> final,
     order_id |-> order_id, external_reference |-> ref]
NoExecutionOutcome ==
    ExecutionOutcome(NoPlacementOutcome, NoReconciliation, None, None, None)

\* JSON bodies of a 2xx placement answer.  ErrorInfo: absent, an object with the
\* given ErrorCode, an object without ErrorCode ("no_code"), or JSON null.
\* OrderId: None when absent.  Orders: the OrderId of each entry (None for an
\* entry without one); an absent Orders reads like an empty one.
PlacementErrorInfos == {"absent", "TradeNotCompleted", "OrderRejected", "no_code", "null"}
PlacementBody(ei, oid, orders) == [ErrorInfo |-> ei, OrderId |-> oid, Orders |-> orders]
PlacementBodies ==
    {PlacementBody(ei, oid, orders) :
        ei \in PlacementErrorInfos, oid \in {None, "ord1"},
        orders \in {<<>>, <<"ord2">>, <<None>>}}
\* response.text empty: post returns {}
EmptyBody == PlacementBody("absent", None, <<>>)
\* response_data: how the POST ended and, when it returned, the body.
NoResponse == [raw |-> None, data |-> EmptyBody]

ParseMutAnyErrorUncertain(data, http_status, request_id) ==
    IF data.ErrorInfo # "absent"
    THEN PlacementOutcome("uncertain", data.OrderId,
                          ErrorInfo(data.ErrorInfo, "message"),
                          http_status, request_id, TRUE)
    ELSE IF data.OrderId # None
    THEN PlacementOutcome("success", data.OrderId, NoErrorInfo, http_status, request_id, FALSE)
    ELSE PlacementOutcome("uncertain", None, NoErrorInfo, http_status, request_id, TRUE)

\* an answer without error and without order id taken for a success
ParseMutMissingIdIsSuccess(data, http_status, request_id) ==
    IF data.ErrorInfo # "absent"
    THEN LET error_code == IF data.ErrorInfo = "no_code" THEN "UNKNOWN" ELSE data.ErrorInfo
         IN  IF error_code = "TradeNotCompleted"
             THEN PlacementOutcome("uncertain", data.OrderId,
                                   ErrorInfo(error_code, "message"),
                                   http_status, request_id, TRUE)
             ELSE PlacementOutcome("failure", None, ErrorInfo(error_code, "message"),
                                   http_status, request_id, FALSE)
    ELSE PlacementOutcome("success",
                          IF data.OrderId # None THEN data.OrderId
                          ELSE IF Len(data.Orders) > 0 THEN data.Orders[1]
                          ELSE None,
                          NoErrorInfo, http_status, request_id, FALSE)

\* _parse_placement_response_data, for a body whose ErrorInfo is not null.
ParsePlacementResponseData(data, http_status, request_id) ==
    IF data.ErrorInfo # "absent"
    THEN LET error_code == IF data.ErrorInfo = "no_code" THEN "UNKNOWN" ELSE data.ErrorInfo
         IN  IF error_code = "TradeNotCompleted"
             THEN PlacementOutcome("uncertain", data.OrderId,
                                   ErrorInfo(error_code, "message"),
                                   http_status, request_id, TRUE)
             ELSE PlacementOutcome("failure", None, ErrorInfo(error_code, "message"),
                                   http_status, request_id, FALSE)
    ELSE LET order_id ==
                 IF data.OrderId # None THEN data.OrderId
                 ELSE IF Len(data.Orders) > 0 THEN data.Orders[1]
                 ELSE None
         IN  IF order_id = None
             THEN PlacementOutcome("uncertain", None, NoErrorInfo,
                                   http_status, request_id, TRUE)
             ELSE PlacementOutcome("success", order_id, NoErrorInfo,
                                   http_status, request_id, FALSE)

\* The except branch of the placement call: r is what post raised.
PlacementFromException(r, request_id) ==
    IF r.exc = "Timeout"
    THEN PlacementOutcome("timeout", None, NoErrorInfo, 0, request_id, TRUE)
    ELSE PlacementOutcome("failure", None, ErrorInfo("EXCEPTION", "str(e)"),
                          StatusCodeAttr(r), request_id, FALSE)

\* The placement attempt of _place_order_sync, from the network's answer on:
\* post, then the parse; error_info.get on a null ErrorInfo raises AttributeError
\* inside the same try.
AttemptPlacement(raw, body, request_id) ==
    LET r == Post(raw)
        data == IF raw = "empty" THEN EmptyBody ELSE body
    IN  IF r.kind = "raise" THEN PlacementFromException(r, request_id)
        ELSE IF data.ErrorInfo = "null"
        THEN PlacementFromException(
                 [kind |-> "raise", exc |-> "AttributeError", status_code |-> 0], request_id)
        ELSE ParsePlacementResponseData(data, 200, request_id)

OrderStatuses == {"Working", "Filled", "FillAndStore", "Cancelled", "Rejected", "Expired", None}

MapMutOtherCancelled(order_status) ==
    CASE order_status = "Working" -> "found_working"
      [] order_status \in {"Filled", "FillAndStore"} -> "found_filled"
      [] OTHER -> "found_cancelled"

\* The status mapping of both reconciliation paths; a missing Status reads
\* "Unknown".
MapOrderStatus(order_status) ==
    CASE order_status = "Working" -> "found_working"
      [] order_status \in {"Filled", "FillAndStore"} -> "found_filled"
      [] order_status \in {"Cancelled", "Rejected"} -> "found_cancelled"
      [] OTHER -> "found_working"

Order(oid, ref, st) == [OrderId |-> oid, ExternalReference |-> ref, Status |-> st]

\* No reconciliation query was sent.
NoOrdersData == [kind |-> None, Data |-> <<>>]

\* Answers of GET /port/v1/orders: the call raises, or Data is a list of orders.
OrdersResponses(ref) ==
    {[kind |-> "raise", Data |-> <<>>], [kind |-> "data", Data |-> <<>>],
     [kind |-> "data", Data |-> <<Order("ord8", "other_ref", "Working")>>],
     [kind |-> "data", Data |-> <<Order("ord8", "other_ref", "Cancelled"),
                                  Order("ord9", ref, "Filled")>>],
     [kind |-> "data", Data |-> <<Order(None, ref, "Working")>>]}
    \cup {[kind |-> "data", Data |-> <<Order("ord9", ref, st)>>] : st \in OrderStatuses}

\* _reconcile_by_order_id
ReconcileByOrderId(order_id, resp) ==
    IF resp.kind = "raise" THEN ReconciliationOutcome("query_failed", order_id, None)
    ELSE IF resp.Data = <<>> THEN ReconciliationOutcome("not_found", order_id, None)
    ELSE LET order == resp.Data[1]
             order_status == IF order.Status = None THEN "Unknown" ELSE order.Status
         IN  ReconciliationOutcome(MapOrderStatus(order_status), order_id, order_status)

\* _reconcile_by_external_reference
ReconcileByExternalReference(external_reference, resp) ==
    IF resp.kind = "raise" THEN ReconciliationOutcome("query_failed", None, None)
    ELSE LET hits == {i \in 1..Len(resp.Data) :
                          resp.Data[i].ExternalReference = external_reference}
         IN  IF hits = {} THEN ReconciliationOutcome("not_found", None, None)
             ELSE LET order == resp.Data[CHOOSE i \in hits : \A j \in hits : i <= j]
                      order_status == IF order.Status = None THEN "Unknown" ELSE order.Status
                  IN  ReconciliationOutcome(MapOrderStatus(order_status),
                                            order.OrderId, order_status)

\* _reconcile_order
ReconcileOrder(order_intent, placement, resp) ==
    IF placement.order_id # None
    THEN ReconcileByOrderId(placement.order_id, resp)
    ELSE ReconcileByExternalReference(order_intent.external_reference, resp)

FinalMutQueryFailedIsFailure(placement, recon) ==
    IF placement.status = "success" THEN "success"
    ELSE IF placement.status = "failure" THEN "failure"
    ELSE IF recon.status \in {"found_working", "found_filled"} THEN "success"
    ELSE "failure"

FinalMutNotFoundIsSuccess(placement, recon) ==
    IF placement.status = "success" THEN "success"
    ELSE IF placement.status = "failure" THEN "failure"
    ELSE IF recon.status \in {"found_working", "found_filled", "not_found"} THEN "success"
    ELSE IF recon.status = "found_cancelled" THEN "failure"
    ELSE "uncertain"

\* _determine_final_status
DetermineFinalStatus(placement, recon) ==
    IF placement.status = "success" THEN "success"
    ELSE IF placement.status = "failure" THEN "failure"
    ELSE IF recon # NoReconciliation /\ recon.status \in {"found_working", "found_filled"}
    THEN "success"
    ELSE IF recon # NoReconciliation /\ recon.status = "found_cancelled" THEN "failure"
    ELSE IF recon # NoReconciliation /\ recon.status = "not_found" THEN "failure"
    ELSE "uncertain"

\* The ExecutionOutcome _place_order_sync returns after the placement attempt.
BuildExecutionOutcome(order_intent, placement, recon) ==
    ExecutionOutcome(placement, recon, DetermineFinalStatus(placement, recon),
                     IF placement.order_id # None THEN placement.order_id
                     ELSE IF recon # NoReconciliation THEN recon.order_id ELSE None,
                     order_intent.external_reference)

\* ------------------------------------------------------------ OrderIntent
\* One instrument (Stock:211) is traded; order_type is Market and the duration
\* DayOrder, the dataclass defaults.  request_id 0 is the empty string.
OrderIntent(ck, ak, bs, amt, ref, req) ==
    [client_key |-> ck, account_key |-> ak, buy_sell |-> bs, amount |-> amt,
     external_reference |-> ref, request_id |-> req,
     order_type |-> "Market", duration_type |-> "DayOrder"]
NoIntent == OrderIntent(None, None, None, 0, None, 0)

Keys(ck, ak) == [client_key |-> ck, account_key |-> ak]
NoKeys == Keys(None, None)

EnforceMutWhenBothDiffer(order_intent) ==
    IF order_intent.client_key # SessionClientKey /\ order_intent.account_key # SessionAccountKey
    THEN [order_intent EXCEPT !.client_key = SessionClientKey,
                              !.account_key = SessionAccountKey]
    ELSE order_intent

\* execute's first statement: the intent gets the executor's client_key and
\* account_key when either differs.
EnforceSessionKeys(order_intent) ==
    IF order_intent.client_key # SessionClientKey \/ order_intent.account_key # SessionAccountKey
    THEN [order_intent EXCEPT !.client_key = SessionClientKey,
                              !.account_key = SessionAccountKey]
    ELSE order_intent

ClientKeys == {SessionClientKey, "other_ck"}
AccountKeys == {SessionAccountKey, "other_ak"}
Amounts == {50, 100, 150}
\* The external_reference of the intents handed to execute: "", the default of
\* the field, as signal_to_intent leaves it; execute then generates one.
ExternalReferences == {""}

\* generate_external_reference: "E005:{strategy}:{uic}:{hash}"
GeneratedReference == "E005:UNKNOWN:211:hash"

\* A reference of 51 characters, which __post_init__ refuses at construction
\* and which a later assignment to intent.external_reference can still set.
LongReference == "ref_567890123456789012345678901234567890123456789_1"

\* len(external_reference); the generated one has a hash of 5 characters.
ExternalReferenceLen(ref) ==
    CASE ref = "" -> 0
      [] ref \in {"ref_1", "ref_2"} -> 5
      [] ref = GeneratedReference -> 22
      [] ref = LongReference -> 51
      [] OTHER -> 0

\* amount and external_reference of the intents handed to place_order: as
\* constructed (__post_init__ passed), or with a field assigned afterwards.
PlaceOrderIntents ==
    {[amount |-> 100, external_reference |-> ref] : ref \in {"ref_1", "ref_2"}}
    \cup {[amount |-> -5, external_reference |-> "ref_1"],
          [amount |-> 100, external_reference |-> LongReference]}

\* --------------------------------------------------- InstrumentValidator
MarketStates ==
    {"Open", "Closed", "OpeningAuction", "ClosingAuction", "IntraDayAuction",
     "TradingAtLast", "PreTrading", "PostTrading", "PreMarket", "PostMarket", "Unknown"}

InstrumentConstraints(tradable, state, inc, min, types, durations) ==
    [is_tradable |-> tradable, market_state |-> state, increment_size |-> inc,
     minimum_trade_size |-> min, supported_order_types |-> types,
     supported_durations |-> durations]

\* Answer of GET /ref/v1/instruments/details.  IsTradable / TsIsTradable: "true",
\* "false" or "absent" (top level / inside TradingStatus); MarketState: the string
\* inside TradingStatus, None when absent; IncrementSize, MinimumTradeSize: 0 when
\* absent; SupportedOrderTypes: the order types listed; MarketDurations: the
\* DurationTypes listed for Market.
InstrumentData(t, tst, ms, inc, min, types, durs) ==
    [kind |-> "data", IsTradable |-> t, TsIsTradable |-> tst, MarketState |-> ms,
     IncrementSize |-> inc, MinimumTradeSize |-> min, SupportedOrderTypes |-> types,
     MarketDurations |-> durs]

GoodInstrument == InstrumentData("true", "absent", "Open", 0, 0, {"Market"}, {"DayOrder"})

InstrumentResponses ==
    {[GoodInstrument EXCEPT !.kind = "raise"], GoodInstrument}
    \cup {[GoodInstrument EXCEPT !.IsTradable = t, !.TsIsTradable = tst] :
              t \in {"false", "absent"}, tst \in {"true", "false", "absent"}}
    \cup {[GoodInstrument EXCEPT !.MarketState = ms] :
              ms \in MarketStates \cup {None, "Halted"}}
    \cup {[GoodInstrument EXCEPT !.IncrementSize = 100],
          [GoodInstrument EXCEPT !.MinimumTradeSize = 100],
          [GoodInstrument EXCEPT !.SupportedOrderTypes = {}, !.MarketDurations = {}],
          [GoodInstrument EXCEPT !.SupportedOrderTypes = {"Limit"}, !.MarketDurations = {}],
          [GoodInstrument EXCEPT !.MarketDurations = {"GoodTillCancel"}],
          [GoodInstrument EXCEPT !.MarketDurations = {}]}

\* _parse_instrument_details
ParseInstrumentDetails(data) ==
    LET is_tradable == IF data.IsTradable # "absent" THEN data.IsTradable
                       ELSE data.TsIsTradable
        market_state == IF data.MarketState \in MarketStates THEN data.MarketState
                        ELSE "Unknown"
    IN  InstrumentConstraints(is_tradable = "true", market_state, data.IncrementSize,
                              data.MinimumTradeSize, data.SupportedOrderTypes,
                              IF "Market" \in data.SupportedOrderTypes
                              THEN data.MarketDurations ELSE {})

NoInstrumentEntry ==
    [present |-> FALSE, constraints |-> InstrumentConstraints(FALSE, "Unknown", 0, 0, {}, {}),
     cached_at |-> 0]

Valid == [ok |-> TRUE, error |-> None]
Invalid(msg) == [ok |-> FALSE, error |-> msg]

\* InstrumentConstraints.validate_market_state
ValidateMarketState(c) ==
    IF c.market_state = "Unknown"
    THEN Invalid("Market state is Unknown, blocking trade.")
    ELSE IF c.market_state \in {"OpeningAuction", "ClosingAuction", "IntraDayAuction",
                                "TradingAtLast", "PreTrading", "PostTrading", "Closed",
                                "Unknown"}
    THEN Invalid("Market is in {state} state, trading restricted.")
    ELSE Valid

\* InstrumentConstraints.validate_order_type
ValidateOrderType(c, order_type) ==
    IF c.supported_order_types = {} THEN Valid
    ELSE IF order_type \notin c.supported_order_types
    THEN Invalid("OrderType not supported")
    ELSE Valid

\* InstrumentConstraints.validate_duration_type: supported_durations has a key
\* for Market only when a non-empty DurationTypes list came with it.
ValidateDurationType(c, order_type, duration_type) ==
    IF c.supported_durations = {} \/ order_type # "Market" THEN Valid
    ELSE IF duration_type \notin c.supported_durations
    THEN Invalid("DurationType not supported")
    ELSE Valid

\* Quantities next to a whole number: whole + offset * 1e-11, the offset in
\* OffsetUnits.  EpsilonUnits is the 1e-10 of the increment check in that unit.
EpsilonUnits == 10
OffsetUnits == {-20, -1, 0, 1, 20}
Abs(n) == IF n < 0 THEN -n ELSE n

\* Decimal places of f"{amount_flt:.10f}" with the trailing zeros stripped: the
\* tenth place holds the offset rounded to 1e-10.
DecimalPlaces(offset) == IF Abs(offset) < 5 THEN 0 ELSE 10

\* amount_flt % increment_size for a whole-number increment, as whole + offset *
\* 1e-11: below a whole number the remainder lies just under whole % increment,
\* or just under the increment itself.
FloatRemainder(whole, offset, increment_size) ==
    IF offset >= 0 THEN [whole |-> whole % increment_size, offset |-> offset]
    ELSE [whole |-> ((whole - 1) % increment_size) + 1, offset |-> offset]

\* InstrumentConstraints.validate_amount of the quantity whole + offset * 1e-11;
\* amount_decimals -1 stands for None.
ValidateAmountNear(c, amount_decimals, whole, offset) ==
    LET remainder == FloatRemainder(whole, offset, c.increment_size)
        \* remainder > 1e-10
        above_zero == remainder.whole > 0 \/ remainder.offset > EpsilonUnits
        \* abs(remainder - increment_size) > 1e-10
        off_increment == ~(/\ remainder.whole = c.increment_size
                           /\ Abs(remainder.offset) <= EpsilonUnits)
    IN  IF amount_decimals >= 0 /\ DecimalPlaces(offset) > amount_decimals
        THEN Invalid("Amount has too many decimals")
        ELSE IF c.increment_size > 0 /\ above_zero /\ off_increment
        THEN Invalid("Amount not aligned with increment size")
        ELSE IF c.minimum_trade_size # 0
                /\ (whole < c.minimum_trade_size
                    \/ (whole = c.minimum_trade_size /\ offset < 0))
        THEN Invalid("Amount below minimum trade size")
        ELSE Valid

\* InstrumentConstraints.validate_amount on whole-number quantities (which have
\* no decimal places, so the decimals check passes).
ValidateAmount(c, amount) == ValidateAmountNear(c, 0, amount, 0)

\* validate_order_intent once the constraints are at hand.
ValidateAgainst(c, order_intent) ==
    IF ~c.is_tradable THEN Invalid("Instrument not tradable")
    ELSE IF ~ValidateMarketState(c).ok THEN ValidateMarketState(c)
    ELSE IF ~ValidateOrderType(c, order_intent.order_type).ok
    THEN ValidateOrderType(c, order_intent.order_type)
    ELSE IF ~ValidateDurationType(c, order_intent.order_type, order_intent.duration_type).ok
    THEN ValidateDurationType(c, order_intent.order_type, order_intent.duration_type)
    ELSE ValidateAmount(c, order_intent.amount)

\* "Market state" in error_msg
MentionsMarketState(msg) == msg = "Market state is Unknown, blocking trade."

\* ------------------------------------- PositionManager / PositionAwareGuards
\* The row of the traded instrument in a positions map.
Position(has, qty, closable) == [has_row |-> has, net_quantity |-> qty, can_be_closed |-> closable]
NoPosition == Position(FALSE, 0, TRUE)

\* Answers of GET /port/v1/netpositions, as far as the traded instrument goes.
PositionResponses ==
    {[kind |-> "raise", row |-> NoPosition], [kind |-> "data", row |-> NoPosition]}
    \cup {[kind |-> "data", row |-> Position(TRUE, q, c)] :
              q \in {-50, 0, 100}, c \in BOOLEAN}

\* _is_cache_valid; the timestamp None is -1.
IsCacheValid(ts, t) == ts # -1 /\ t - ts < position_cache_ttl

GetPositionsMutFailureDropsCache(cache, ts, failed, t, force_refresh, resp) ==
    IF ~force_refresh /\ IsCacheValid(ts, t)
    THEN [queried |-> FALSE, returned |-> cache,
          cache |-> cache, ts |-> ts, failed |-> failed]
    ELSE IF resp.kind = "raise"
    THEN [queried |-> TRUE, returned |-> NoPosition,
          cache |-> NoPosition, ts |-> -1, failed |-> TRUE]
    ELSE [queried |-> TRUE, returned |-> resp.row,
          cache |-> resp.row, ts |-> t, failed |-> FALSE]

\* get_positions(force_refresh) when the manager holds cache, ts and failed at
\* time t and the venue would answer resp: whether the venue was queried, the map
\* returned, and the manager's fields afterwards.
GetPositions(cache, ts, failed, t, force_refresh, resp) ==
    IF ~force_refresh /\ IsCacheValid(ts, t)
    THEN [queried |-> FALSE, returned |-> cache,
          cache |-> cache, ts |-> ts, failed |-> failed]
    ELSE IF resp.kind = "raise"
    THEN [queried |-> TRUE, returned |-> IF cache.has_row THEN cache ELSE NoPosition,
          cache |-> cache, ts |-> ts, failed |-> TRUE]
    ELSE [queried |-> TRUE, returned |-> resp.row,
          cache |-> resp.row, ts |-> t, failed |-> FALSE]

GuardResult(allowed, reason, qty) ==
    [allowed |-> allowed, reason |-> reason, position_quantity |-> qty]
NoGuardResult == GuardResult(FALSE, None, 0)

\* Locals of one evaluate_buy_intent call that runs beside others: where it is,
\* how its get_positions came by the map ("cached", "ok", "failed"), the map,
\* and the result.
Threads == 1..NumThreads
Thread(at, query, positions, returned) ==
    [pc |-> at, query |-> query, positions |-> positions, result |-> returned]
NoThread == Thread("idle", None, NoPosition, NoGuardResult)

\* Arguments of a call of the guards or of get_positions; intended_quantity 0 is
\* None.
GuardInput(op, qty, force) ==
    [op |-> op, intended_quantity |-> qty, force_refresh |-> force]
NoGuardInput == GuardInput(None, 0, FALSE)

EvaluateBuyMutNoFailureCheck(positions, failed, cfg) ==
    IF ~positions.has_row THEN GuardResult(TRUE, "no_existing_position", 0)
    ELSE IF positions.net_quantity > 0
    THEN GuardResult(cfg.duplicate_buy_policy # "block", "duplicate_buy", positions.net_quantity)
    ELSE IF positions.net_quantity < 0
    THEN GuardResult(cfg.allow_short_covering, "short", positions.net_quantity)
    ELSE GuardResult(TRUE, "zero_position", 0)

EvaluateBuyMutWarnBlocks(positions, failed, cfg) ==
    IF failed /\ cfg.block_on_position_failure /\ ~positions.has_row
    THEN GuardResult(FALSE, "position_data_unavailable", 0)
    ELSE IF ~positions.has_row THEN GuardResult(TRUE, "no_existing_position", 0)
    ELSE IF positions.net_quantity > 0
    THEN GuardResult(cfg.duplicate_buy_policy = "allow", "duplicate_buy", positions.net_quantity)
    ELSE IF positions.net_quantity < 0
    THEN GuardResult(cfg.allow_short_covering, "short", positions.net_quantity)
    ELSE GuardResult(TRUE, "zero_position", 0)

\* evaluate_buy_intent after get_positions returned `positions`.
EvaluateBuy(positions, failed, cfg) ==
    IF failed /\ cfg.block_on_position_failure /\ ~positions.has_row
    THEN GuardResult(FALSE, "position_data_unavailable", 0)
    ELSE IF ~positions.has_row THEN GuardResult(TRUE, "no_existing_position", 0)
    ELSE IF positions.net_quantity > 0
    THEN IF cfg.duplicate_buy_policy = "block"
         THEN GuardResult(FALSE, "duplicate_buy_prevented", positions.net_quantity)
         ELSE GuardResult(TRUE, "duplicate_buy_warned", positions.net_quantity)
    ELSE IF positions.net_quantity < 0
    THEN IF cfg.allow_short_covering
         THEN GuardResult(TRUE, "reducing_short_position", positions.net_quantity)
         ELSE GuardResult(FALSE, "short_covering_not_configured", positions.net_quantity)
    ELSE GuardResult(TRUE, "zero_position", 0)

EvaluateSellMutNoShortCheck(positions, intended_quantity) ==
    IF ~positions.has_row THEN GuardResult(FALSE, "no_position_to_sell", 0)
    ELSE IF positions.net_quantity = 0 THEN GuardResult(FALSE, "zero_position", 0)
    ELSE IF ~positions.can_be_closed
    THEN GuardResult(FALSE, "position_locked_by_broker", positions.net_quantity)
    ELSE GuardResult(TRUE, "position_exists", positions.net_quantity)

EvaluateSellMutNoClamp(positions, intended_quantity) ==
    IF ~positions.has_row THEN GuardResult(FALSE, "no_position_to_sell", 0)
    ELSE IF positions.net_quantity < 0
    THEN GuardResult(FALSE, "position_is_short", positions.net_quantity)
    ELSE IF positions.net_quantity = 0 THEN GuardResult(FALSE, "zero_position", 0)
    ELSE IF ~positions.can_be_closed
    THEN GuardResult(FALSE, "position_locked_by_broker", positions.net_quantity)
    ELSE GuardResult(TRUE, "position_exists",
                     IF intended_quantity # 0 THEN intended_quantity
                     ELSE positions.net_quantity)

EvaluateSellMutLockFirst(positions, intended_quantity) ==
    IF ~positions.has_row THEN GuardResult(FALSE, "no_position_to_sell", 0)
    ELSE IF ~positions.can_be_closed
    THEN GuardResult(FALSE, "position_locked_by_broker", positions.net_quantity)
    ELSE IF positions.net_quantity < 0
    THEN GuardResult(FALSE, "position_is_short", positions.net_quantity)
    ELSE IF positions.net_quantity = 0 THEN GuardResult(FALSE, "zero_position", 0)
    ELSE GuardResult(TRUE, "position_exists",
                     IF intended_quantity # 0 /\ intended_quantity < positions.net_quantity
                     THEN intended_quantity ELSE positions.net_quantity)

\* evaluate_sell_intent after get_positions returned `positions`; the intended
\* quantity 0 stands for None.
EvaluateSell(positions, intended_quantity) ==
    IF ~positions.has_row THEN GuardResult(FALSE, "no_position_to_sell", 0)
    ELSE IF positions.net_quantity < 0
    THEN GuardResult(FALSE, "position_is_short", positions.net_quantity)
    ELSE IF positions.net_quantity = 0 THEN GuardResult(FALSE, "zero_position", 0)
    ELSE IF ~positions.can_be_closed
    THEN GuardResult(FALSE, "position_locked_by_broker", positions.net_quantity)
    ELSE LET sell_quantity == IF intended_quantity # 0 THEN intended_quantity
                              ELSE positions.net_quantity
         IN  GuardResult(TRUE, "position_exists",
                         IF sell_quantity > positions.net_quantity
                         THEN positions.net_quantity ELSE sell_quantity)

GuardConfigs ==
    [duplicate_buy_policy : {"block", "warn", "allow"},
     allow_short_covering : BOOLEAN,
     block_on_position_failure : {TRUE}]
\* ExecutionConfig()
DefaultGuardConfig ==
    [duplicate_buy_policy |-> "block", allow_short_covering |-> FALSE,
     block_on_position_failure |-> TRUE]

\* The guards' configuration when SaxoTradeExecutor is built with a config that
\* names neither duplicate_buy_policy nor allow_short_covering.
ExecutorDefaultGuardConfig ==
    [DefaultGuardConfig EXCEPT !.duplicate_buy_policy = "block",
                               !.allow_short_covering = FALSE]

\* ---------------------------------------------------------- PrecheckClient
\* JSON bodies of a 2xx precheck answer.  ErrorInfo as for placement bodies;
\* Costs "malformed": an EstimatedCost / MarginImpact block that the parse trips
\* over; PreTradeDisclaimers as the record the parse builds from it.
PrecheckBody(ei, costs, ptd) == [ErrorInfo |-> ei, Costs |-> costs, PreTradeDisclaimers |-> ptd]
PrecheckBodies ==
    {PrecheckBody(ei, "ok", NoPreTradeDisclaimers) : ei \in {"InsufficientFunds", "no_code"}}
    \cup {PrecheckBody("absent", "malformed", NoPreTradeDisclaimers),
          PrecheckBody("absent", "ok", NoPreTradeDisclaimers)}
    \cup {PrecheckBody("absent", "ok", PreTradeDisclaimers("ctx", toks)) :
              toks \in SeqsUpTo(Tokens, MaxTokenList)}

\* _parse_precheck_response_data, for a body it parses without an exception.
ParsePrecheckResponseData(data, http_status, request_id) ==
    IF data.ErrorInfo # "absent"
    THEN WithRawResponse(
             PrecheckOutcome(FALSE,
                 ErrorInfo(IF data.ErrorInfo = "no_code" THEN "UNKNOWN" ELSE data.ErrorInfo,
                           "message"),
                 NoPreTradeDisclaimers, http_status, request_id),
             data)
    ELSE WithRawResponse(
             PrecheckOutcome(TRUE, NoErrorInfo, data.PreTradeDisclaimers, http_status,
                             request_id),
             data)

\* _perform_single_precheck from the network's answer on.
PerformSinglePrecheck(raw, body, request_id) ==
    LET r == Post(raw)
        data == IF raw = "empty" THEN PrecheckBody("absent", "ok", NoPreTradeDisclaimers)
                ELSE body
    IN  IF r.kind = "raise"
        THEN PrecheckOutcome(FALSE, ErrorInfo("HTTP_ERROR", "str(e)"), NoPreTradeDisclaimers,
                             StatusCodeAttr(r), request_id)
        ELSE IF data.ErrorInfo = "absent" /\ data.Costs = "malformed"
        THEN PrecheckOutcome(FALSE, ErrorInfo("HTTP_ERROR", "str(e)"), NoPreTradeDisclaimers,
                             500, request_id)
        ELSE ParsePrecheckResponseData(data, 200, request_id)

\* The loop of _execute_precheck_with_retry: is `outcome` of attempt `attempt`
\* returned, or does the loop go on?
PrecheckReturns(outcome, attempt) ==
    \/ outcome.ok
    \/ outcome.http_status \notin retry_on_status
    \/ attempt >= precheck_max_retries

\* A function called on its own: its name, its arguments, what it returned.
Calc(name, args, returned) == [name |-> name, args |-> args, returned |-> returned]
NoCalc == Calc(None, <<>>, <<>>)

\* ------------------------------------------------------------------ Init
InitWith(p, g) ==
    /\ pc = "idle"
    /\ entry = None
    /\ invocations = 0
    /\ now = 0
    /\ uuid_next = 1
    /\ calls = <<>>
    /\ intent = NoIntent
    /\ dry_run = FALSE
    /\ policy = p
    /\ disc_cache = [t \in Tokens |-> NoCacheEntry]
    /\ precheck_result = NoPrecheckOutcome
    /\ pre_attempt = 0
    /\ disc_i = 0
    /\ details_list = <<>>
    /\ accepted = <<>>
    /\ errors = <<>>
    /\ disclaimer_outcome = NoDisclaimerOutcome
    /\ placement_outcome = NoPlacementOutcome
    /\ reconciliation = NoReconciliation
    /\ execution_outcome = NoExecutionOutcome
    /\ result = NoResult
    /\ inst_cache = NoInstrumentEntry
    /\ pos_cache = NoPosition
    /\ pos_cache_ts = -1
    /\ last_query_failed = FALSE
    /\ guard_cfg = g
    /\ done_log = <<>>
    /\ response_data = NoResponse
    /\ guard_input = NoGuardInput
    /\ returned_positions = NoPosition
    /\ guard_result = NoGuardResult
    /\ caller_keys = NoKeys
    /\ transport = NoTransport
    /\ orders_data = NoOrdersData
    /\ calc = NoCalc
    /\ threads = [t \in Threads |-> NoThread]

\* SaxoTradeExecutor(saxo_client, account_key, client_key, config): the config
\* sets the disclaimer policy and the guards' policies.
Init == \E p \in Policies, g \in GuardConfigs : InitWith(p, g)

\* DisclaimerService(saxo_client, DisclaimerConfig(policy)) on its own.
InitDisclaimers == \E p \in Policies : InitWith(p, DefaultGuardConfig)

\* OrderPlacementClient(saxo_client, config) on its own.
InitPlacement == InitWith("block_all", DefaultGuardConfig)

config == <<policy, guard_cfg>>
discLocals == <<disc_i, details_list, accepted, errors, disclaimer_outcome>>
placeLocals == <<placement_outcome, reconciliation, execution_outcome, response_data,
                 orders_data>>
validatorState == <<inst_cache>>
positionState == <<pos_cache, pos_cache_ts, last_query_failed>>
guardLocals == <<guard_input, returned_positions, guard_result>>
callerState == <<entry, invocations, dry_run, done_log, caller_keys>>

\* ------------------------------------------------- stage-to-stage control
\* execute, from the return of place_order on: the status mapping and the error
\* message taken from placement.error_info.
ResultOfPlacement(eo) ==
    ExecutionResult(
        IF eo.final_status = "failure" THEN "failed_placement"
        ELSE IF eo.final_status = "uncertain" THEN "reconciliation_needed"
        ELSE "success",
        eo.order_id,
        IF eo.placement.error_info # NoErrorInfo THEN eo.placement.error_info.message
        ELSE None,
        eo.final_status = "uncertain")

\* place_order returns eo: to the caller, or into execute.
FinishPlacement(eo) ==
    /\ execution_outcome' = eo
    /\ pc' = "done"
    /\ result' = IF entry = "execute" THEN ResultOfPlacement(eo) ELSE result

\* evaluate_disclaimers returns o: to the caller, or into execute, which stops on
\* a refusal, stops on dry_run, and otherwise goes on to place_order.
FinishDisclaimers(o) ==
    /\ disclaimer_outcome' = o
    /\ IF entry # "execute" THEN pc' = "done" /\ UNCHANGED result
       ELSE IF ~o.allow_trading
       THEN /\ pc' = "done"
            /\ result' = ExecutionResult("blocked_by_disclaimer", None,
                                         "Disclaimers blocked trading", FALSE)
       ELSE IF dry_run
       THEN /\ pc' = "done"
            /\ result' = ExecutionResult("dry_run", "DRY_RUN_ID", None, FALSE)
       ELSE pc' = "place" /\ UNCHANGED result

\* evaluate_disclaimers(pr, intent) up to its first remote call.
BeginDisclaimers(pr) ==
    IF ~pr.pre_trade_disclaimers.present \/ pr.pre_trade_disclaimers.disclaimer_tokens = <<>>
    THEN /\ FinishDisclaimers(AllowAll(policy))
         /\ UNCHANGED <<disc_i, details_list, accepted, errors>>
    ELSE /\ pc' = "disc_fetch"
         /\ disc_i' = 1
         /\ details_list' = <<>>
         /\ accepted' = <<>>
         /\ errors' = <<>>
         /\ UNCHANGED <<disclaimer_outcome, result>>

\* execute going on to the disclaimers whatever the precheck returned
AfterPrecheckMutIgnoresFailure(pr) ==
    /\ precheck_result' = pr
    /\ intent' = IF pr.request_id # 0 THEN [intent EXCEPT !.request_id = pr.request_id]
                 ELSE intent
    /\ BeginDisclaimers(pr)

\* execute, from the return of execute_precheck on.  The request id is copied to
\* the intent; then execute reads precheck_result.success, an attribute that the
\* PrecheckOutcome the precheck client returns does not have.
AfterPrecheck(pr) ==
    /\ precheck_result' = pr
    /\ intent' = IF pr.request_id # 0 THEN [intent EXCEPT !.request_id = pr.request_id]
                 ELSE intent
    /\ IF "success" \notin DOMAIN pr
       THEN /\ pc' = "done"
            /\ result' = Raised("AttributeError")
            /\ UNCHANGED discLocals
       ELSE IF ~pr.success
       THEN /\ pc' = "done"
            /\ result' = ExecutionResult("failed_precheck", None, "Precheck failed", FALSE)
            /\ UNCHANGED discLocals
       ELSE BeginDisclaimers(pr)

\* ---------------------------------------------------------------- actions
\* The caller invokes executor.execute(intent, dry_run).  execute first makes the
\* intent's keys those of the session and fills in a missing external reference.
InvokeExecute ==
    /\ pc = "idle"
    /\ invocations < MaxExecutions
    /\ \E ck \in ClientKeys, ak \in AccountKeys, bs \in {"Buy", "Sell"},
          amt \in Amounts, ref \in ExternalReferences, dr \in BOOLEAN :
          /\ intent' = EnforceSessionKeys(
                            OrderIntent(ck, ak, bs, amt,
                                        IF ref = "" THEN GeneratedReference ELSE ref, 0))
          /\ caller_keys' = Keys(ck, ak)
          /\ dry_run' = dr
    /\ entry' = "execute"
    /\ invocations' = invocations + 1
    /\ pc' = "validate"
    /\ UNCHANGED guardLocals
    /\ UNCHANGED transport
    /\ UNCHANGED calc
    /\ UNCHANGED threads
    /\ UNCHANGED <<now, uuid_next, calls, config, disc_cache, precheck_result, pre_attempt,
                   discLocals, placeLocals, result, validatorState, positionState, done_log>>

\* validate_order_intent: the constraints from the cache or from the venue, then
\* the checks; it returns to its caller, or into execute, which stops on a refusal.  error_message holds the validator's
\* message, which execute puts behind "Instrument validation failed: ".
ValidateStage ==
    /\ pc = "validate"
    /\ \E resp \in InstrumentResponses :
          LET hit == inst_cache.present /\ now - inst_cache.cached_at < instrument_cache_ttl
              c == IF hit THEN inst_cache.constraints ELSE ParseInstrumentDetails(resp)
              v == IF ~hit /\ resp.kind = "raise"
                   THEN Invalid("Instrument validation failed: Error fetching instrument details")
                   ELSE ValidateAgainst(c, intent)
          IN  /\ hit => resp = GoodInstrument
              /\ calls' = IF hit THEN calls
                          ELSE Append(calls, Call("GET", InstrumentPath, intent.account_key, 0,
                                                   resp.kind))
              /\ inst_cache' = IF hit \/ resp.kind = "raise" THEN inst_cache
                               ELSE [present |-> TRUE, constraints |-> c, cached_at |-> now]
              /\ IF entry # "execute"
                 THEN /\ pc' = "done"
                      /\ calc' = Calc("validate_order_intent", <<>>, v)
                      /\ UNCHANGED result
                 ELSE IF v.ok THEN pc' = "guard" /\ UNCHANGED <<result, calc>>
                 ELSE /\ pc' = "done"
                      /\ result' = ExecutionResult(
                             IF MentionsMarketState(v.error) THEN "blocked_by_market_state"
                             ELSE "failed_precheck",
                             None, v.error, FALSE)
                      /\ UNCHANGED calc
    /\ UNCHANGED guardLocals
    /\ UNCHANGED transport
    /\ UNCHANGED threads
    /\ UNCHANGED <<callerState, now, uuid_next, intent, config, disc_cache, precheck_result,
                   pre_attempt, discLocals, placeLocals, positionState>>

\* The guard: get_positions (cache or venue), then evaluate_buy_intent or
\* evaluate_sell_intent; execute stops on a refusal.  error_message holds the
\* guard's reason, which execute puts behind "Position guard blocked: ".
GuardStage ==
    /\ pc = "guard"
    /\ \E resp \in PositionResponses :
          LET input == IF entry # "execute" THEN guard_input
                       ELSE GuardInput(IF intent.buy_sell = "Buy" THEN "evaluate_buy_intent"
                                       ELSE "evaluate_sell_intent",
                                       intent.amount, FALSE)
              gp == GetPositions(pos_cache, pos_cache_ts, last_query_failed, now,
                                 input.force_refresh, resp)
              g == IF input.op = "evaluate_buy_intent"
                   THEN EvaluateBuy(gp.returned, gp.failed, guard_cfg)
                   ELSE IF input.op = "evaluate_sell_intent"
                   THEN EvaluateSell(gp.returned, input.intended_quantity)
                   ELSE NoGuardResult
          IN  /\ ~gp.queried => resp.kind = "raise"
              /\ calls' = IF gp.queried
                          THEN Append(calls, Call("GET", NetPositionsPath, SessionClientKey, 0,
                                                   resp.kind))
                          ELSE calls
              /\ pos_cache' = gp.cache
              /\ pos_cache_ts' = gp.ts
              /\ last_query_failed' = gp.failed
              /\ guard_input' = input
              /\ returned_positions' = gp.returned
              /\ guard_result' = g
              /\ IF entry # "execute" THEN pc' = "done" /\ UNCHANGED <<pre_attempt, result>>
                 ELSE IF g.allowed THEN pc' = "precheck" /\ pre_attempt' = 0 /\ UNCHANGED result
                 ELSE /\ pc' = "done"
                      /\ pre_attempt' = pre_attempt
                      /\ result' = ExecutionResult("blocked_by_position", None, g.reason, FALSE)
    /\ UNCHANGED transport
    /\ UNCHANGED calc
    /\ UNCHANGED threads
    /\ UNCHANGED <<callerState, now, uuid_next, intent, config, disc_cache, precheck_result,
                   discLocals, placeLocals, validatorState>>

\* One physical precheck attempt of _execute_precheck_with_retry; when the loop
\* returns, execute goes on.
PrecheckAttempt ==
    /\ pc = "precheck"
    /\ \E raw \in RawPostOutcomes, body \in PrecheckBodies :
          LET fresh == intent.request_id = 0
              request_id == IF fresh THEN uuid_next ELSE intent.request_id
              outcome == PerformSinglePrecheck(raw, body, request_id)
          IN  /\ raw # "json" => body = PrecheckBody("absent", "ok", NoPreTradeDisclaimers)
              /\ uuid_next' = IF fresh THEN uuid_next + 1 ELSE uuid_next
              /\ calls' = Append(calls, Call("POST", PrecheckPath, intent.account_key,
                                           request_id, raw))
              /\ IF PrecheckReturns(outcome, pre_attempt)
                 THEN /\ IF entry = "execute" THEN AfterPrecheck(outcome)
                         ELSE /\ pc' = "done"
                              /\ precheck_result' = outcome
                              /\ UNCHANGED <<intent, result, discLocals>>
                      /\ UNCHANGED pre_attempt
                 ELSE /\ pre_attempt' = pre_attempt + 1
                      /\ UNCHANGED <<pc, precheck_result, intent, result, discLocals>>
    /\ UNCHANGED guardLocals
    /\ UNCHANGED transport
    /\ UNCHANGED calc
    /\ UNCHANGED threads
    /\ UNCHANGED <<callerState, now, config, disc_cache, placeLocals, validatorState,
                   positionState>>

\* The caller invokes disclaimer_service.evaluate_disclaimers(precheck_outcome,
\* intent) with the outcome of a precheck that succeeded.
InvokeEvaluateDisclaimers ==
    /\ pc = "idle"
    /\ invocations < MaxInvocations
    /\ \E ptd \in {NoPreTradeDisclaimers}
                  \cup {PreTradeDisclaimers("ctx", toks) : toks \in SeqsUpTo(Tokens, MaxTokenList)} :
          LET pr == PrecheckOutcome(TRUE, NoErrorInfo, ptd, 200, 0)
          IN  /\ precheck_result' = pr
              /\ entry' = "evaluate_disclaimers"
              /\ BeginDisclaimers(pr)
    /\ intent' = OrderIntent(SessionClientKey, SessionAccountKey, "Buy", 100, "ref_1", 0)
    /\ invocations' = invocations + 1
    /\ UNCHANGED guardLocals
    /\ UNCHANGED transport
    /\ UNCHANGED calc
    /\ UNCHANGED threads
    /\ UNCHANGED caller_keys
    /\ UNCHANGED <<now, uuid_next, calls, dry_run, config, disc_cache, pre_attempt,
                   placeLocals, validatorState, positionState, done_log>>

\* One round of the loop of _fetch_disclaimer_details_batch: the details of the
\* next token, from the cache or from the venue; after the last token,
\* evaluate_disclaimers classifies and applies the policy.
DisclaimerFetch ==
    /\ pc = "disc_fetch"
    /\ LET toks == precheck_result.pre_trade_disclaimers.disclaimer_tokens
           tok == toks[disc_i]
           hit == CacheHit(disc_cache, tok, now)
       IN  \E out \in DmFetchOutcomes :
              LET details == IF hit THEN disc_cache[tok].details
                             ELSE IF DmFetchFailed(out) THEN UnknownDisclaimer(tok)
                             ELSE ParseDisclaimerItem(tok, out)
                  ds == Append(details_list, details)
                  cls == ClassifyDisclaimers(ds, policy)
              IN  /\ hit => out = "normal"
                  /\ calls' = IF hit THEN calls
                              ELSE Append(calls, Call("GET", DisclaimerPath, tok, 0,
                                                      DmFetchLogged(out)))
                  /\ disc_cache' = IF hit \/ DmFetchFailed(out) THEN disc_cache
                                   ELSE [disc_cache EXCEPT ![tok] =
                                            [present |-> TRUE, details |-> details,
                                             cached_at |-> now]]
                  /\ details_list' = ds
                  /\ IF disc_i < Len(toks)
                     THEN /\ disc_i' = disc_i + 1
                          /\ UNCHANGED <<pc, accepted, errors, disclaimer_outcome, result>>
                     ELSE IF cls.next = "accept" /\ Normal(ds) # <<>>
                     THEN /\ pc' = "disc_accept"
                          /\ disc_i' = 1
                          /\ UNCHANGED <<accepted, errors, disclaimer_outcome, result>>
                     ELSE /\ FinishDisclaimers(
                                 IF cls.next = "accept"
                                 THEN AfterAutoAccept(ds, <<>>, <<>>, policy)
                                 ELSE cls.outcome)
                          /\ UNCHANGED <<disc_i, accepted, errors>>
    /\ UNCHANGED guardLocals
    /\ UNCHANGED transport
    /\ UNCHANGED calc
    /\ UNCHANGED threads
    /\ UNCHANGED <<callerState, now, uuid_next, intent, config, precheck_result, pre_attempt,
                   placeLocals, validatorState, positionState>>

\* One round of the loop of _auto_accept_disclaimers over the normal disclaimers:
\* the defensive check, then the acceptance POST with a fresh request id.
DisclaimerAccept ==
    /\ pc = "disc_accept"
    /\ LET normal == Normal(details_list)
           details == normal[disc_i]
           tok == details.disclaimer_token
       IN  \E raw \in RawPostOutcomes :
              LET posted == ~details.is_blocking
                  ok == posted /\ Post(raw).kind = "return"
                  acc == IF ok THEN Append(accepted, tok) ELSE accepted
                  errs == IF ok THEN errors ELSE Append(errors, tok)
              IN  /\ ~posted => raw = "json"
                  /\ uuid_next' = IF posted THEN uuid_next + 1 ELSE uuid_next
                  /\ calls' = IF posted
                              THEN Append(calls, Call("POST", DisclaimerPath, tok, uuid_next,
                                                      Post(raw).kind))
                              ELSE calls
                  /\ accepted' = acc
                  /\ errors' = errs
                  /\ IF disc_i < Len(normal)
                     THEN disc_i' = disc_i + 1 /\ UNCHANGED <<pc, disclaimer_outcome, result>>
                     ELSE /\ FinishDisclaimers(AfterAutoAccept(details_list, acc, errs, policy))
                          /\ UNCHANGED disc_i
    /\ UNCHANGED guardLocals
    /\ UNCHANGED transport
    /\ UNCHANGED calc
    /\ UNCHANGED threads
    /\ UNCHANGED <<callerState, now, intent, config, disc_cache, precheck_result, pre_attempt,
                   details_list, placeLocals, validatorState, positionState>>

\* The caller invokes OrderPlacementClient(saxo_client, PlacementConfig(dry_run))
\* .place_order(intent, precheck_outcome); execute does so with dry_run false and
\* the outcome of its precheck.  The two guards of _place_order_sync, in the
\* order of the code: the dry-run guard, then the precheck guard.
PlaceOrderGuards(order_intent, pr, dry) ==
    IF dry
    THEN [next |-> "return",
          outcome |-> ExecutionOutcome(
              PlacementOutcome("success", None, NoErrorInfo, 0, 0, FALSE),
              NoReconciliation, "success", None, order_intent.external_reference)]
    ELSE IF ~pr.ok
    THEN [next |-> "return",
          outcome |-> ExecutionOutcome(
              PlacementOutcome("failure", None, pr.error_info, 0, 0, FALSE),
              NoReconciliation, "failure", None, order_intent.external_reference)]
    ELSE [next |-> "place", outcome |-> NoExecutionOutcome]

PlaceOrderPrechecks ==
    {PrecheckOutcome(TRUE, NoErrorInfo, NoPreTradeDisclaimers, 200, 1),
     PrecheckOutcome(FALSE, ErrorInfo("InsufficientFunds", "message"),
                     NoPreTradeDisclaimers, 200, 1),
     PrecheckOutcome(FALSE, ErrorInfo("HTTP_ERROR", "str(e)"),
                     NoPreTradeDisclaimers, 500, 1)}

InvokePlaceOrder ==
    /\ pc = "idle"
    /\ invocations < MaxInvocations
    /\ \E f \in PlaceOrderIntents, dr \in BOOLEAN, pr \in PlaceOrderPrechecks :
          LET order_intent == OrderIntent(SessionClientKey, SessionAccountKey, "Buy",
                                          f.amount, f.external_reference, pr.request_id)
              g == PlaceOrderGuards(order_intent, pr, dr)
          IN  /\ intent' = order_intent
              /\ dry_run' = dr
              /\ precheck_result' = pr
              /\ IF g.next = "return"
                 THEN /\ execution_outcome' = g.outcome
                      /\ placement_outcome' = g.outcome.placement
                      /\ pc' = "done"
                 ELSE /\ pc' = "place"
                      /\ UNCHANGED <<execution_outcome, placement_outcome>>
    /\ entry' = "place_order"
    /\ invocations' = invocations + 1
    /\ UNCHANGED caller_keys
    /\ UNCHANGED guardLocals
    /\ UNCHANGED transport
    /\ UNCHANGED calc
    /\ UNCHANGED threads
    /\ UNCHANGED orders_data
    /\ UNCHANGED <<now, uuid_next, calls, config, disc_cache, pre_attempt, discLocals,
                   reconciliation, response_data, result, validatorState, positionState,
                   done_log>>

\* The placement attempt of _place_order_sync: one POST to /trade/v2/orders with a
\* fresh request id, and the classification of what came back.  Without need of
\* reconciliation the final status follows at once.
PlaceOrder ==
    /\ pc = "place"
    /\ \E raw \in RawPostOutcomes, body \in PlacementBodies :
          LET request_id == uuid_next
              po == AttemptPlacement(raw, body, request_id)
          IN  /\ raw # "json" => body = EmptyBody
              /\ uuid_next' = uuid_next + 1
              /\ calls' = Append(calls, Call("POST", PlacementPath, intent.account_key,
                                           request_id, raw))
              /\ response_data' = [raw |-> raw, data |-> body]
              /\ placement_outcome' = po
              /\ IF po.requires_reconciliation
                 THEN /\ pc' = "reconcile"
                      /\ UNCHANGED <<execution_outcome, result>>
                 ELSE FinishPlacement(BuildExecutionOutcome(intent, po, NoReconciliation))
    /\ UNCHANGED guardLocals
    /\ UNCHANGED transport
    /\ UNCHANGED calc
    /\ UNCHANGED threads
    /\ UNCHANGED orders_data
    /\ UNCHANGED <<callerState, now, intent, config, disc_cache, precheck_result, pre_attempt,
                   discLocals, reconciliation, validatorState, positionState>>

\* _reconcile_order: one GET to /port/v1/orders, by order id or by external
\* reference, then the final status.
Reconcile ==
    /\ pc = "reconcile"
    /\ \E resp \in OrdersResponses(intent.external_reference) :
          LET recon == ReconcileOrder(intent, placement_outcome, resp)
          IN  /\ calls' = Append(calls, Call("GET", OrdersPath, intent.client_key, 0, resp.kind))
              /\ reconciliation' = recon
              /\ orders_data' = resp
              /\ FinishPlacement(BuildExecutionOutcome(intent, placement_outcome, recon))
    /\ UNCHANGED guardLocals
    /\ UNCHANGED transport
    /\ UNCHANGED calc
    /\ UNCHANGED threads
    /\ UNCHANGED <<callerState, now, uuid_next, intent, config, disc_cache, precheck_result,
                   pre_attempt, discLocals, placement_outcome, response_data, validatorState,
                   positionState>>

\* What the caller keeps of a finished invocation.
Outcome ==
    IF entry = "execute" THEN result.status
    ELSE IF entry \in {"get_with_headers", "post"} THEN transport.outcome.kind
    ELSE IF entry = "get_best_retry_delay" THEN calc.returned.source
    ELSE IF entry \in {"validate_amount", "validate_order_intent"}
    THEN (IF calc.returned.ok THEN "valid" ELSE calc.returned.error)
    ELSE IF entry = "execute_precheck"
    THEN (IF precheck_result.ok THEN "ok" ELSE precheck_result.error_info.error_code)
    ELSE IF entry \in {"place_order", "_determine_final_status"}
    THEN execution_outcome.final_status
    ELSE IF disclaimer_outcome.allow_trading THEN "allow" ELSE "refuse"

Finished ==
    [entry |-> entry, external_reference |-> intent.external_reference,
     buy_sell |-> intent.buy_sell, amount |-> intent.amount, dry_run |-> dry_run,
     outcome |-> Outcome,
     placement_posts |-> CountCalls(calls, "POST", PlacementPath),
     placement_timed_out |->
         \E i \in 1..Len(calls) :
             calls[i].path = PlacementPath /\ calls[i].out = "timeout",
     reconciliation |-> reconciliation.status]

\* The invocation returns (or raises) to the caller.  The caches and the request
\* id source outlive it; its locals do not.
Return ==
    /\ pc = "done"
    /\ done_log' = Append(done_log, Finished)
    /\ pc' = "idle"
    /\ entry' = None
    /\ calls' = <<>>
    /\ intent' = NoIntent
    /\ dry_run' = FALSE
    /\ precheck_result' = NoPrecheckOutcome
    /\ pre_attempt' = 0
    /\ disc_i' = 0
    /\ details_list' = <<>>
    /\ accepted' = <<>>
    /\ errors' = <<>>
    /\ disclaimer_outcome' = NoDisclaimerOutcome
    /\ placement_outcome' = NoPlacementOutcome
    /\ reconciliation' = NoReconciliation
    /\ execution_outcome' = NoExecutionOutcome
    /\ response_data' = NoResponse
    /\ guard_input' = NoGuardInput
    /\ returned_positions' = NoPosition
    /\ guard_result' = NoGuardResult
    /\ caller_keys' = NoKeys
    /\ transport' = NoTransport
    /\ orders_data' = NoOrdersData
    /\ calc' = NoCalc
    /\ result' = NoResult
    /\ UNCHANGED <<invocations, now, uuid_next, config, disc_cache, validatorState,
                   positionState, threads>>

\* Time passes between invocations.
Tick ==
    /\ pc = "idle"
    /\ now + TickSeconds <= MaxTime
    /\ now' = now + TickSeconds
    /\ UNCHANGED guardLocals
    /\ UNCHANGED transport
    /\ UNCHANGED calc
    /\ UNCHANGED threads
    /\ UNCHANGED <<pc, callerState, uuid_next, calls, intent, config, disc_cache,
                   precheck_result, pre_attempt, discLocals, placeLocals, result,
                   validatorState, positionState>>

\* SaxoTradeExecutor: callers invoke execute.
Next ==
    \/ InvokeExecute
    \/ ValidateStage
    \/ GuardStage
    \/ PrecheckAttempt
    \/ Return

Spec == Init /\ [][Next]_vars

\* DisclaimerService: callers invoke evaluate_disclaimers.
NextDisclaimers ==
    \/ InvokeEvaluateDisclaimers
    \/ DisclaimerFetch
    \/ DisclaimerAccept
    \/ Return
    \/ Tick

SpecDisclaimers == InitDisclaimers /\ [][NextDisclaimers]_vars

\* OrderPlacementClient: callers invoke place_order.
NextPlacement ==
    \/ InvokePlaceOrder
    \/ PlaceOrder
    \/ Reconcile
    \/ Return

SpecPlacement == InitPlacement /\ [][NextPlacement]_vars

\* _determine_final_status on its own: every placement status with every
\* reconciliation (None included).
FinalPlacements ==
    {PlacementOutcome(st, oid, NoErrorInfo, 200, 1, st \in {"uncertain", "timeout"}) :
        st \in {"success", "failure", "uncertain", "timeout"}, oid \in {None, "ord1"}}

FinalReconciliations ==
    {NoReconciliation}
    \cup {ReconciliationOutcome(st, oid, None) :
              st \in {"found_working", "found_filled", "found_cancelled", "not_found",
                      "query_failed", "not_attempted"},
              oid \in {None, "ord9"}}

InvokeDetermineFinalStatus ==
    /\ pc = "idle"
    /\ invocations < MaxInvocations
    /\ \E placement \in FinalPlacements, recon \in FinalReconciliations :
          /\ placement_outcome' = placement
          /\ reconciliation' = recon
          /\ execution_outcome' =
                 [NoExecutionOutcome EXCEPT
                     !.placement = placement, !.reconciliation = recon,
                     !.final_status = DetermineFinalStatus(placement, recon)]
    /\ pc' = "done"
    /\ entry' = "_determine_final_status"
    /\ invocations' = invocations + 1
    /\ UNCHANGED guardLocals
    /\ UNCHANGED transport
    /\ UNCHANGED calc
    /\ UNCHANGED threads
    /\ UNCHANGED orders_data
    /\ UNCHANGED caller_keys
    /\ UNCHANGED <<now, uuid_next, calls, intent, dry_run, config, disc_cache, precheck_result,
                   pre_attempt, discLocals, response_data, result, validatorState,
                   positionState, done_log>>

NextFinal ==
    \/ InvokeDetermineFinalStatus
    \/ Return

SpecFinal == InitPlacement /\ [][NextFinal]_vars

\* ------------------------------------------- InstrumentConstraints on its own
\* Whole parts of the quantities and increments the caller tries.
AmountWholes == {1, 50, 99, 100, 101, 5000, 5500}
IncrementSizes == {0, 1, 100, 1000}

\* InstrumentConstraints(increment_size = inc, minimum_trade_size = min,
\*                       amount_decimals = dec).validate_amount(whole + offset * 1e-11)
InvokeValidateAmount ==
    /\ pc = "idle"
    /\ invocations < MaxInvocations
    /\ \E whole \in AmountWholes, offset \in OffsetUnits, inc \in IncrementSizes,
          min \in {0, 100}, dec \in {-1, 0} :
           LET c == InstrumentConstraints(TRUE, "Open", inc, min, {}, {})
           IN  calc' = Calc("validate_amount",
                            [whole |-> whole, offset |-> offset, increment_size |-> inc,
                             minimum_trade_size |-> min, amount_decimals |-> dec],
                            ValidateAmountNear(c, dec, whole, offset))
    /\ pc' = "done"
    /\ entry' = "validate_amount"
    /\ invocations' = invocations + 1
    /\ UNCHANGED guardLocals
    /\ UNCHANGED transport
    /\ UNCHANGED threads
    /\ UNCHANGED <<now, uuid_next, calls, intent, dry_run, config, disc_cache,
                   precheck_result, pre_attempt, discLocals, placeLocals, result,
                   validatorState, positionState, done_log, caller_keys>>

NextValidateAmount ==
    \/ InvokeValidateAmount
    \/ Return

SpecValidateAmount == InitPlacement /\ [][NextValidateAmount]_vars

\* ------------------------------------------------- the two caches over time
\* The caller invokes validator.validate_order_intent(intent).
InvokeValidateOrderIntent ==
    /\ pc = "idle"
    /\ invocations < MaxInvocations
    /\ \E bs \in {"Buy", "Sell"} :
           intent' = OrderIntent(SessionClientKey, SessionAccountKey, bs, 100, "ref_1", 0)
    /\ pc' = "validate"
    /\ entry' = "validate_order_intent"
    /\ invocations' = invocations + 1
    /\ UNCHANGED guardLocals
    /\ UNCHANGED transport
    /\ UNCHANGED calc
    /\ UNCHANGED threads
    /\ UNCHANGED <<now, uuid_next, calls, dry_run, config, disc_cache, precheck_result,
                   pre_attempt, discLocals, placeLocals, result, validatorState,
                   positionState, done_log, caller_keys>>

\* InstrumentValidator and DisclaimerService called again and again while time
\* passes.
NextCaches ==
    \/ InvokeValidateOrderIntent
    \/ ValidateStage
    \/ InvokeEvaluateDisclaimers
    \/ DisclaimerFetch
    \/ DisclaimerAccept
    \/ Return
    \/ Tick

SpecCaches == InitDisclaimers /\ [][NextCaches]_vars

\* ------------------------------------------- get_best_retry_delay on its own
\* get_best_retry_delay(response, rate_limit_info, attempt), with every draw of
\* the jitter.
InvokeGetBestRetryDelay ==
    /\ pc = "idle"
    /\ invocations < MaxInvocations
    /\ \E hdr \in ResponseHeaders, attempt \in 0..MaxAttempt :
       \E jitter \in AllJitters(attempt) :
           calc' = Calc("get_best_retry_delay",
                        [retry_after |-> hdr.retry_after, rate_limit_info |-> hdr.rate,
                         attempt |-> attempt, jitter |-> jitter],
                        GetBestRetryDelay(hdr.retry_after, hdr.rate, attempt, jitter))
    /\ pc' = "done"
    /\ entry' = "get_best_retry_delay"
    /\ invocations' = invocations + 1
    /\ UNCHANGED guardLocals
    /\ UNCHANGED transport
    /\ UNCHANGED threads
    /\ UNCHANGED <<now, uuid_next, calls, intent, dry_run, config, disc_cache,
                   precheck_result, pre_attempt, discLocals, placeLocals, result,
                   validatorState, positionState, done_log, caller_keys>>

NextRetryDelay ==
    \/ InvokeGetBestRetryDelay
    \/ Return

SpecRetryDelay == InitPlacement /\ [][NextRetryDelay]_vars

\* --------------------------------------------------- PrecheckClient on its own
\* The caller invokes precheck_client.execute_precheck(order_intent), the intent
\* with or without a request id of its own.
InvokeExecutePrecheck ==
    /\ pc = "idle"
    /\ invocations < MaxInvocations
    /\ \E bs \in {"Buy", "Sell"}, rid \in {0, 9} :
           intent' = OrderIntent(SessionClientKey, SessionAccountKey, bs, 100, "ref_1", rid)
    /\ pc' = "precheck"
    /\ pre_attempt' = 0
    /\ entry' = "execute_precheck"
    /\ invocations' = invocations + 1
    /\ UNCHANGED guardLocals
    /\ UNCHANGED transport
    /\ UNCHANGED calc
    /\ UNCHANGED threads
    /\ UNCHANGED <<now, uuid_next, calls, dry_run, config, disc_cache, precheck_result,
                   discLocals, placeLocals, result, validatorState, positionState,
                   done_log, caller_keys>>

NextPrecheck ==
    \/ InvokeExecutePrecheck
    \/ PrecheckAttempt
    \/ Return

SpecPrecheck == InitPlacement /\ [][NextPrecheck]_vars

\* ----------------------------------------------------- SaxoClient on its own
\* max_retries a caller of get_with_headers passes; MAX_RETRIES is the default.
MaxRetriesArgs == {1, MAX_RETRIES}

\* client.get_with_headers(path, max_retries = m)
InvokeGetWithHeaders ==
    /\ pc = "idle"
    /\ invocations < MaxTransportCalls
    /\ \E m \in MaxRetriesArgs :
           transport' = Transport(0, m, {}, None, FALSE, NoRetryAfter, NoRetryDelay,
                                  NoTransportOutcome)
    /\ pc' = "get_attempt"
    /\ entry' = "get_with_headers"
    /\ invocations' = invocations + 1
    /\ UNCHANGED guardLocals
    /\ UNCHANGED calc
    /\ UNCHANGED threads
    /\ UNCHANGED <<now, uuid_next, calls, intent, dry_run, config, disc_cache,
                   precheck_result, pre_attempt, discLocals, placeLocals, result,
                   validatorState, positionState, done_log, caller_keys>>

\* One pass of get_with_headers' loop: the request, and what follows from its
\* answer: return, raise, or sleep and go round again.
GetAttemptStep ==
    /\ pc = "get_attempt"
    /\ \E raw \in RawGetOutcomes, hdr \in ResponseHeaders,
          jitter \in Jitters(transport.attempt) :
           LET t == GetAttempt(transport, raw, hdr, jitter)
           IN  /\ transport' = t
               /\ calls' = Append(calls, Call("GET", InfoPricesPath, None,
                                              transport.attempt, raw))
               /\ pc' = IF t.outcome.kind = None THEN "get_attempt" ELSE "done"
    /\ UNCHANGED guardLocals
    /\ UNCHANGED calc
    /\ UNCHANGED threads
    /\ UNCHANGED <<callerState, now, uuid_next, intent, config, disc_cache,
                   precheck_result, pre_attempt, discLocals, placeLocals, result,
                   validatorState, positionState>>

\* client.post(path, json_body) / client.delete(path): a single request.
InvokePost ==
    /\ pc = "idle"
    /\ invocations < MaxTransportCalls
    /\ \E raw \in RawPostOutcomes :
           /\ transport' = Transport(0, 0, {}, None, FALSE, NoRetryAfter, NoRetryDelay,
                                     SingleRequest(raw))
           /\ calls' = Append(calls, Call("POST", InfoPricesPath, None, 0, raw))
    /\ pc' = "done"
    /\ entry' = "post"
    /\ invocations' = invocations + 1
    /\ UNCHANGED guardLocals
    /\ UNCHANGED calc
    /\ UNCHANGED threads
    /\ UNCHANGED <<now, uuid_next, intent, dry_run, config, disc_cache,
                   precheck_result, pre_attempt, discLocals, placeLocals, result,
                   validatorState, positionState, done_log, caller_keys>>

NextTransport ==
    \/ InvokeGetWithHeaders
    \/ GetAttemptStep
    \/ InvokePost
    \/ Return

SpecTransport == InitPlacement /\ [][NextTransport]_vars

\* PositionManager and PositionAwareGuards on their own: callers invoke
\* get_positions, evaluate_buy_intent and evaluate_sell_intent.
InitGuards == \E g \in GuardConfigs : InitWith("block_all", g)

InvokeGuardCall(op, qty, force) ==
    /\ pc = "idle"
    /\ invocations < MaxGuardCalls
    /\ pc' = "guard"
    /\ entry' = op
    /\ invocations' = invocations + 1
    /\ guard_input' = GuardInput(op, qty, force)
    /\ UNCHANGED caller_keys
    /\ UNCHANGED transport
    /\ UNCHANGED calc
    /\ UNCHANGED threads
    /\ UNCHANGED <<now, uuid_next, calls, intent, dry_run, config, disc_cache, precheck_result,
                   pre_attempt, discLocals, placeLocals, result, validatorState,
                   positionState, done_log, returned_positions, guard_result>>

InvokeGetPositions ==
    \E force \in BOOLEAN : InvokeGuardCall("get_positions", 0, force)

InvokeEvaluateBuyIntent ==
    \E qty \in Amounts : InvokeGuardCall("evaluate_buy_intent", qty, FALSE)

InvokeEvaluateSellIntent ==
    \E qty \in Amounts \cup {0} : InvokeGuardCall("evaluate_sell_intent", qty, FALSE)

NextGuards ==
    \/ InvokeGetPositions
    \/ InvokeEvaluateBuyIntent
    \/ InvokeEvaluateSellIntent
    \/ GuardStage
    \/ Return
    \/ Tick

SpecGuards == InitGuards /\ [][NextGuards]_vars

\* evaluate_buy_intent called by several threads on one PositionAwareGuards.
\* Nothing in PositionManager or the guards takes a lock, so a thread can be
\* overtaken between any two of its steps: the cache test, the answer of the
\* venue, and the read of last_query_failed.
ThreadStep(t, next) ==
    /\ threads' = [threads EXCEPT ![t] = next]
    /\ UNCHANGED guardLocals
    /\ UNCHANGED transport
    /\ UNCHANGED calc
    /\ UNCHANGED <<pc, entry, now, uuid_next, calls, intent, dry_run, config, disc_cache,
                   precheck_result, pre_attempt, discLocals, placeLocals, result,
                   validatorState, done_log, caller_keys>>

\* get_positions up to the request: the cached map, or the request goes out
ThreadInvoke(t) ==
    /\ threads[t].pc = "idle"
    /\ invocations < MaxGuardCalls
    /\ invocations' = invocations + 1
    /\ IF IsCacheValid(pos_cache_ts, now)
       THEN ThreadStep(t, Thread("check", "cached", pos_cache, NoGuardResult))
       ELSE ThreadStep(t, Thread("query", None, NoPosition, NoGuardResult))
    /\ UNCHANGED positionState

\* get_positions from the answer of the venue on
ThreadQuery(t) ==
    /\ threads[t].pc = "query"
    /\ \E resp \in PositionResponses :
          LET gp == GetPositions(pos_cache, pos_cache_ts, last_query_failed, now, TRUE, resp)
          IN  /\ pos_cache' = gp.cache
              /\ pos_cache_ts' = gp.ts
              /\ last_query_failed' = gp.failed
              /\ ThreadStep(t, Thread("check",
                                      IF resp.kind = "raise" THEN "failed" ELSE "ok",
                                      gp.returned, NoGuardResult))
    /\ UNCHANGED invocations

\* evaluate_buy_intent from the return of get_positions on: it reads
\* position_manager.last_query_failed as it is by then
ThreadCheck(t) ==
    /\ threads[t].pc = "check"
    /\ ThreadStep(t, [threads[t] EXCEPT
                          !.pc = "done",
                          !.result = EvaluateBuy(threads[t].positions, last_query_failed,
                                                 guard_cfg)])
    /\ UNCHANGED <<invocations, positionState>>

ThreadReturn(t) ==
    /\ threads[t].pc = "done"
    /\ ThreadStep(t, NoThread)
    /\ UNCHANGED <<invocations, positionState>>

NextConcurrentGuards ==
    \/ \E t \in Threads : ThreadInvoke(t)
    \/ \E t \in Threads : ThreadQuery(t)
    \/ \E t \in Threads : ThreadCheck(t)
    \/ \E t \in Threads : ThreadReturn(t)
    \/ Tick

SpecConcurrentGuards == InitGuards /\ [][NextConcurrentGuards]_vars

\* ------------------------------------------------------------- properties
IsCall(c, method, path) == c.method = method /\ c.path = path
PlacementPosts == CountCalls(calls, "POST", PlacementPath)
ReconciliationQueries == CountCalls(calls, "GET", OrdersPath)

\* C1 (SpecDisclaimers): when evaluate_disclaimers returns and the record of at
\* least one token of the list is blocking, allow_trading is false, whatever the
\* policy and whatever the other tokens of the list are.
C1_BlockingNeverAllowed ==
    (/\ entry = "evaluate_disclaimers"
     /\ pc = "done"
     /\ \E k \in 1..Len(details_list) : details_list[k].is_blocking)
    => ~disclaimer_outcome.allow_trading

\* A blocking record next to a normal one, under the policy that accepts normal
\* disclaimers.
C1_Witness ==
    /\ entry = "evaluate_disclaimers"
    /\ pc = "done"
    /\ policy = "auto_accept_normal"
    /\ Len(details_list) = 2
    /\ ~details_list[1].is_blocking
    /\ details_list[2].is_blocking
    /\ ~disclaimer_outcome.allow_trading

\* C2 (Spec): a run of execute with dry_run false whose precheck succeeded and
\* returned a disclaimer token returns the status BLOCKED_BY_DISCLAIMER and has
\* issued no placement POST.  Stated for the policies under which every token,
\* whatever its record, has to end in that status; a blocking record is one of
\* the records the venue can hold for the token.
C2_BlockedByDisclaimer ==
    (/\ entry = "execute"
     /\ pc = "done"
     /\ ~dry_run
     /\ policy # "auto_accept_normal"
     /\ precheck_result.ok
     /\ precheck_result.pre_trade_disclaimers.disclaimer_tokens # <<>>)
    => /\ result.kind = "return"
       /\ result.status = "blocked_by_disclaimer"
       /\ PlacementPosts = 0

\* C3 (SpecPlacement): an invocation of place_order issues at most one POST to
\* /trade/v2/orders, whatever the venue answers; and when the placement needed
\* reconciliation and the reconciliation query failed, the final status is
\* uncertain, still with one placement POST.
C3_AtMostOnePlacementPost ==
    /\ PlacementPosts <= 1
    /\ (/\ pc = "done"
        /\ placement_outcome.requires_reconciliation
        /\ reconciliation.status = "query_failed")
       => /\ execution_outcome.final_status = "uncertain"
          /\ PlacementPosts = 1

C3_Witness ==
    /\ entry = "place_order"
    /\ pc = "done"
    /\ placement_outcome.status = "uncertain"
    /\ reconciliation.status = "query_failed"
    /\ execution_outcome.final_status = "uncertain"
    /\ PlacementPosts = 1
    /\ ReconciliationQueries = 1

\* C4 (SpecPlacement): when the placement POST ends in a timeout or a connection
\* error, the placement outcome is uncertain (or timeout) with
\* requires_reconciliation, and place_order does not return before a
\* reconciliation was run.
C4_TimeoutIsUncertain ==
    response_data.raw \in {"timeout", "connection_error"}
    => /\ placement_outcome.status \in {"uncertain", "timeout"}
       /\ placement_outcome.requires_reconciliation
       /\ pc = "done" => reconciliation # NoReconciliation

\* C5 (SpecPlacement): of two invocations with the same intention and the same
\* external reference, the first of which saw its placement POST time out, both
\* end in success and the second issues no placement POST.  (That the order is
\* filled is for the reconciliation after the timeout to find.)
C5_RetryIsIdempotent ==
    \A i, j \in 1..Len(done_log) :
        (/\ i < j
         /\ done_log[i].external_reference = done_log[j].external_reference
         /\ done_log[i].buy_sell = done_log[j].buy_sell
         /\ done_log[i].amount = done_log[j].amount
         /\ ~done_log[i].dry_run /\ ~done_log[j].dry_run
         /\ done_log[i].placement_timed_out)
        => /\ done_log[i].outcome = "success"
           /\ done_log[j].outcome = "success"
           /\ done_log[j].placement_posts = 0

\* C6 (SpecFinal): the final status as a function of the placement status p and
\* the reconciliation status r: success for p success; failure for p failure;
\* for p uncertain or timeout, success for r found_working or found_filled,
\* failure for r found_cancelled or not_found, uncertain for r query_failed; it
\* is always one of the three values, and success comes from no other pair.
C6_FinalStatusTable ==
    (entry = "_determine_final_status" /\ pc = "done")
    => LET p == placement_outcome.status
           r == reconciliation.status
           f == execution_outcome.final_status
           open == p \in {"uncertain", "timeout"}
       IN  /\ f \in {"success", "failure", "uncertain"}
           /\ p = "success" => f = "success"
           /\ p = "failure" => f = "failure"
           /\ (open /\ r \in {"found_working", "found_filled"}) => f = "success"
           /\ (open /\ r \in {"found_cancelled", "not_found"}) => f = "failure"
           /\ (open /\ r = "query_failed") => f = "uncertain"
           /\ f = "success" =>
                 \/ p = "success"
                 \/ open /\ r \in {"found_working", "found_filled"}

C6_Witness ==
    /\ entry = "_determine_final_status"
    /\ pc = "done"
    /\ placement_outcome.status = "timeout"
    /\ reconciliation.status = "not_found"
    /\ execution_outcome.final_status = "failure"

C8_FailedPrecheckIsFailure ==
    (entry = "place_order" /\ pc = "done" /\ ~precheck_result.ok)
    => /\ execution_outcome.final_status = "failure"
       /\ calls = <<>>

\* C9 (Spec): execute called with dry_run true, every stage before placement
\* passing (the precheck succeeded and asked for no disclaimer), issues no
\* placement POST and no reconciliation query and returns the status SUCCESS
\* with the order id DRY_RUN_ID.
C9_DryRunIsSuccess ==
    (/\ entry = "execute"
     /\ pc = "done"
     /\ dry_run
     /\ precheck_result.ok
     /\ precheck_result.pre_trade_disclaimers.disclaimer_tokens = <<>>)
    => /\ result.kind = "return"
       /\ result.status = "success"
       /\ result.order_id = "DRY_RUN_ID"
       /\ PlacementPosts = 0
       /\ ReconciliationQueries = 0

\* C10 (SpecDisclaimers): an acceptance POST to /dm/v2/disclaimers goes out only
\* for a token all of whose records in this evaluation are non-blocking and none
\* of whose detail fetches failed; and a token whose detail fetch failed (the call
\* raised, or brought no Data) has a blocking record, which under every policy
\* ends in a refusal that lists it as blocking.
C10_NoAcceptanceOfBlockingOrUnknown ==
    /\ \A i \in 1..Len(calls) :
          IsCall(calls[i], "POST", DisclaimerPath) =>
             /\ \E k \in 1..Len(details_list) :
                   details_list[k].disclaimer_token = calls[i].arg
             /\ \A k \in 1..Len(details_list) :
                   details_list[k].disclaimer_token = calls[i].arg
                   => ~details_list[k].is_blocking
             /\ \A j \in 1..Len(calls) :
                   (IsCall(calls[j], "GET", DisclaimerPath) /\ calls[j].arg = calls[i].arg)
                   => calls[j].out # "failed"
    /\ \A j \in 1..Len(calls) :
          (IsCall(calls[j], "GET", DisclaimerPath) /\ calls[j].out = "failed") =>
             /\ \E k \in 1..Len(details_list) :
                   /\ details_list[k].disclaimer_token = calls[j].arg
                   /\ details_list[k].is_blocking
             /\ pc = "done" =>
                   /\ ~disclaimer_outcome.allow_trading
                   /\ \E k \in 1..Len(disclaimer_outcome.blocking_disclaimers) :
                         disclaimer_outcome.blocking_disclaimers[k] = calls[j].arg

\* Under the accepting policy: one token normal, the fetch of the other failed,
\* and no acceptance went out.
C10_Witness ==
    /\ entry = "evaluate_disclaimers"
    /\ pc = "done"
    /\ policy = "auto_accept_normal"
    /\ \E j \in 1..Len(calls) :
          IsCall(calls[j], "GET", DisclaimerPath) /\ calls[j].out = "failed"
    /\ \E k \in 1..Len(details_list) : ~details_list[k].is_blocking
    /\ CountCalls(calls, "POST", DisclaimerPath) = 0
    /\ ~disclaimer_outcome.allow_trading

\* C11 (SpecDisclaimers): under AUTO_ACCEPT_NORMAL no acceptance POST goes out for
\* a normal disclaimer whose record, as fetched in this evaluation, has conditions
\* that ask for user input or does not offer "Accepted"; when the evaluation
\* returns with such a record among the normal ones, an error is recorded and
\* allow_trading is false.
C11_AcceptOnlyUnconditional ==
    policy = "auto_accept_normal" =>
       \A j \in 1..Len(calls) :
          (/\ IsCall(calls[j], "GET", DisclaimerPath)
           /\ calls[j].out \in {"conditions", "no_accepted"})
          => /\ \A i \in 1..Len(calls) :
                   IsCall(calls[i], "POST", DisclaimerPath) => calls[i].arg # calls[j].arg
             /\ (pc = "done" /\ Blocking(details_list) = <<>>)
                => /\ ~disclaimer_outcome.allow_trading
                   /\ disclaimer_outcome.errors # <<>>

\* The acceptance POSTs of this evaluation that returned without raising.
SuccessfulAcceptances ==
    Cardinality({i \in 1..Len(calls) :
                    IsCall(calls[i], "POST", DisclaimerPath) /\ calls[i].out = "return"})

\* C12 (SpecDisclaimers): when evaluate_disclaimers returns with no blocking
\* disclaimer and at least one normal one, allow_trading is true exactly when the
\* policy is AUTO_ACCEPT_NORMAL and the acceptance call succeeded for every normal
\* disclaimer; under BLOCK_ALL and MANUAL_REVIEW allow_trading is false and no
\* acceptance call was issued.
C12_NormalOnlyFollowsPolicy ==
    (/\ entry = "evaluate_disclaimers"
     /\ pc = "done"
     /\ Blocking(details_list) = <<>>
     /\ Normal(details_list) # <<>>)
    => /\ disclaimer_outcome.allow_trading
          <=> /\ policy = "auto_accept_normal"
              /\ SuccessfulAcceptances = Len(Normal(details_list))
       /\ policy # "auto_accept_normal"
          => /\ ~disclaimer_outcome.allow_trading
             /\ CountCalls(calls, "POST", DisclaimerPath) = 0

\* Two normal disclaimers, the first accepted, the acceptance of the second
\* failed: trading is refused.
C12_Witness ==
    /\ entry = "evaluate_disclaimers"
    /\ pc = "done"
    /\ policy = "auto_accept_normal"
    /\ Blocking(details_list) = <<>>
    /\ Len(Normal(details_list)) = 2
    /\ CountCalls(calls, "POST", DisclaimerPath) = 2
    /\ SuccessfulAcceptances = 1
    /\ ~disclaimer_outcome.allow_trading

\* C13 (Spec): execute goes past validate_order_intent only when the instrument
\* record in force says that the instrument is tradable and that the market state
\* is Open; a missing IsTradable, an absent or unrecognised market state, and
\* every state among Closed, Unknown, the auction states, PreTrading, PostTrading,
\* PreMarket and PostMarket end in a rejection.
C13_AcceptsOnlyOpenTradable ==
    (entry = "execute" /\ pc = "guard")
    => /\ inst_cache.present
       /\ inst_cache.constraints.is_tradable
       /\ inst_cache.constraints.market_state = "Open"

\* A call of the guards has returned.
GuardReturned(op) == entry = op /\ pc = "done"

\* C14 (SpecGuards): when evaluate_buy_intent returns (block_on_position_failure
\* set) while the most recent remote position query failed and the cache holds no
\* row for the instrument, the buy is refused, whatever refreshes, failures,
\* forced refreshes and expiries came before.
C14_BuyBlockedWhenPositionsUnknown ==
    (/\ GuardReturned("evaluate_buy_intent")
     /\ guard_cfg.block_on_position_failure
     /\ last_query_failed
     /\ ~pos_cache.has_row)
    => /\ ~guard_result.allowed
       /\ guard_result.reason = "position_data_unavailable"

\* A refresh succeeded without a row, a forced refresh failed, and the buy was
\* evaluated on the still valid cache without a remote query.
C14_Witness ==
    /\ GuardReturned("evaluate_buy_intent")
    /\ last_query_failed
    /\ ~pos_cache.has_row
    /\ pos_cache_ts # -1
    /\ calls = <<>>
    /\ ~guard_result.allowed

\* C15 (SpecGuards): when the position in force is short, evaluate_sell_intent
\* refuses with reason position_is_short whatever quantity was requested, and
\* evaluate_buy_intent allows exactly when allow_short_covering is enabled.
C15_ShortPosition ==
    (returned_positions.has_row /\ returned_positions.net_quantity < 0)
    => /\ GuardReturned("evaluate_sell_intent")
          => /\ ~guard_result.allowed
             /\ guard_result.reason = "position_is_short"
       /\ GuardReturned("evaluate_buy_intent")
          => (guard_result.allowed <=> guard_cfg.allow_short_covering)

\* A buy against a short position with short covering enabled was allowed.
C15_Witness ==
    /\ GuardReturned("evaluate_buy_intent")
    /\ returned_positions.has_row
    /\ returned_positions.net_quantity < 0
    /\ guard_cfg.allow_short_covering
    /\ guard_result.allowed

\* C16 (SpecGuards): when evaluate_sell_intent allows, the quantity it returns is
\* the smaller of the requested quantity and the net position, so never more than
\* the net position, and it is the full net position when no quantity was
\* requested.
C16_SellQuantityClamped ==
    (GuardReturned("evaluate_sell_intent") /\ guard_result.allowed)
    => LET requested == guard_input.intended_quantity
           net == returned_positions.net_quantity
       IN  /\ guard_result.position_quantity <= net
           /\ requested = 0 => guard_result.position_quantity = net
           /\ requested # 0 =>
                 guard_result.position_quantity = IF requested < net THEN requested ELSE net

\* More was requested than is held, and the net position was returned.
C16_Witness ==
    /\ GuardReturned("evaluate_sell_intent")
    /\ guard_result.allowed
    /\ guard_input.intended_quantity > returned_positions.net_quantity
    /\ guard_result.position_quantity = returned_positions.net_quantity

\* C17 (SpecGuards): evaluate_sell_intent allows exactly when a row exists whose
\* net quantity is positive and which the broker has not locked; otherwise it
\* refuses with the reason of the first check that fails, in the order: no
\* position, short, zero, broker lock.
C17_SellAllowedIffLongAndFree ==
    GuardReturned("evaluate_sell_intent")
    => LET p == returned_positions
       IN  /\ guard_result.allowed
              <=> (p.has_row /\ p.net_quantity > 0 /\ p.can_be_closed)
           /\ ~guard_result.allowed
              => guard_result.reason =
                    IF ~p.has_row THEN "no_position_to_sell"
                    ELSE IF p.net_quantity < 0 THEN "position_is_short"
                    ELSE IF p.net_quantity = 0 THEN "zero_position"
                    ELSE "position_locked_by_broker"

\* A short position that the broker has locked as well: the reason is the short
\* position.
C17_Witness ==
    /\ GuardReturned("evaluate_sell_intent")
    /\ returned_positions.has_row
    /\ returned_positions.net_quantity < 0
    /\ ~returned_positions.can_be_closed
    /\ guard_result.reason = "position_is_short"

\* C18 (SpecGuards): when evaluate_buy_intent returns and the position data was
\* obtained (the last remote query did not fail), a buy with no row is allowed and
\* a buy against a long position is allowed exactly when the duplicate-buy policy
\* is not "block"; under the executor's default configuration a buy of an
\* instrument already held long is refused.
C18_DuplicateBuyPolicy ==
    (GuardReturned("evaluate_buy_intent") /\ ~last_query_failed)
    => LET p == returned_positions
       IN  /\ ~p.has_row => (guard_result.allowed /\ guard_result.reason = "no_existing_position")
           /\ (p.has_row /\ p.net_quantity > 0)
              => /\ guard_result.allowed <=> guard_cfg.duplicate_buy_policy # "block"
                 /\ guard_cfg = ExecutorDefaultGuardConfig
                    => /\ ~guard_result.allowed
                       /\ guard_result.reason = "duplicate_buy_prevented"

\* Under the policy "warn" a buy against a long position was allowed.
C18_Witness ==
    /\ GuardReturned("evaluate_buy_intent")
    /\ ~last_query_failed
    /\ returned_positions.has_row
    /\ returned_positions.net_quantity > 0
    /\ guard_cfg.duplicate_buy_policy = "warn"
    /\ guard_result.allowed

\* C19 (SpecGuards): a step in which the remote position query fails returns the
\* map cached before, leaves the cache and its timestamp as they were and sets
\* last_query_failed; a step in which the query succeeds puts the map just fetched
\* in place of the whole cache, stamps it with the current time and clears
\* last_query_failed.
C19_FailedQueryKeepsCache ==
    [][(pc = "guard" /\ Len(calls') = Len(calls) + 1)
       => LET out == calls'[Len(calls')].out
          IN  /\ out = "raise"
                 => /\ returned_positions' = pos_cache
                    /\ pos_cache' = pos_cache
                    /\ pos_cache_ts' = pos_cache_ts
                    /\ last_query_failed'
              /\ out = "data"
                 => /\ pos_cache' = returned_positions'
                    /\ pos_cache_ts' = now
                    /\ ~last_query_failed']_vars

\* A forced refresh failed while a row was cached: the row and its timestamp are
\* still there, the row was returned, and the failure is recorded.
C19_Witness ==
    /\ GuardReturned("get_positions")
    /\ guard_input.force_refresh
    /\ calls # <<>>
    /\ calls[Len(calls)].out = "raise"
    /\ pos_cache.has_row
    /\ pos_cache_ts # -1
    /\ returned_positions = pos_cache
    /\ last_query_failed

\* C20 (Spec): from the start of execute on, the intent's client_key and
\* account_key are the executor's, whatever the caller put there: every instrument
\* lookup, precheck payload and placement payload of the execution carries the
\* executor's account key, and the intent still holds the executor's keys when
\* execute has returned, with any status.
C20_SessionKeysEnforced ==
    (entry = "execute" /\ pc # "idle")
    => /\ intent.client_key = SessionClientKey
       /\ intent.account_key = SessionAccountKey
       /\ \A i \in 1..Len(calls) :
             calls[i].path \in {InstrumentPath, PrecheckPath, PlacementPath}
             => calls[i].arg = SessionAccountKey

\* The caller's intent named the executor's client but another account; execute
\* looked the instrument up, the guard refused, execute returned, and the intent
\* holds the executor's keys.
C20_Witness ==
    /\ entry = "execute"
    /\ pc = "done"
    /\ result.kind = "return"
    /\ result.status = "blocked_by_position"
    /\ caller_keys = Keys(SessionClientKey, "other_ak")
    /\ CountCalls(calls, "GET", InstrumentPath) = 1
    /\ intent.client_key = SessionClientKey
    /\ intent.account_key = SessionAccountKey

\* C21 (SpecPlacement): every precheck and placement request sent to the venue
\* carries a correlation string of 1 to 50 characters and a quantity above 0,
\* also when the intent's fields were assigned after construction.
C21_RequestsCarryValidFields ==
    \A i \in 1..Len(calls) :
       calls[i].path \in {PrecheckPath, PlacementPath}
       => /\ intent.amount > 0
          /\ ExternalReferenceLen(intent.external_reference) \in 1..50

\* The market states that validate_market_state refuses.
BlockedMarketStates ==
    {"Unknown", "Closed", "OpeningAuction", "ClosingAuction", "IntraDayAuction",
     "TradingAtLast", "PreTrading", "PostTrading"}

\* execute ended in the validation stage: the guard was never called.
EndedInValidation == entry = "execute" /\ pc = "done" /\ guard_input = NoGuardInput

\* The validation refused because of the market state: the instrument record
\* was there and tradable, and its state is one of the refused ones.
RefusedForMarketState ==
    /\ EndedInValidation
    /\ inst_cache.present
    /\ inst_cache.constraints.is_tradable
    /\ inst_cache.constraints.market_state \in BlockedMarketStates

\* C22 (Spec): each early rejection of execute has its own status: a validation
\* failure other than the market state gives FailedValidation, a market-state
\* refusal (Unknown, Closed, auction, pre-/post-trading) BlockedByMarketState, a
\* guard refusal BlockedByPosition, and a precheck failure FailedPrecheck.
C22_RejectionStatuses ==
    /\ RefusedForMarketState
       => (result.kind = "return" /\ result.status = "blocked_by_market_state")
    /\ (EndedInValidation /\ ~RefusedForMarketState)
       => (result.kind = "return" /\ result.status = "failed_validation")
    /\ (entry = "execute" /\ pc = "done" /\ guard_input # NoGuardInput
        /\ ~guard_result.allowed)
       => (result.kind = "return" /\ result.status = "blocked_by_position")
    /\ (entry = "execute" /\ pc = "done" /\ precheck_result # NoPrecheckOutcome
        /\ ~precheck_result.ok)
       => (result.kind = "return" /\ result.status = "failed_precheck")

\* ---------------------------------------------------------------------
\* C23: the transport sends a request again only after an answer with status
\* 429, 500, 502, 503 or 504 or after an attempt that ended in a timeout or a
\* connection error; an answer with status 400, 401 or 403 is the last request
\* of the call, and the call raises.
TransportCall == entry \in {"get_with_headers", "post"}

RetriedOutcomes ==
    {"http429", "http500", "http502", "http503", "http504", "timeout", "connection_error"}

C23_RetryOnlyTransient ==
    TransportCall =>
        /\ \A i \in 1..(Len(calls) - 1) : calls[i].out \in RetriedOutcomes
        /\ \A i \in 1..Len(calls) :
               calls[i].out \in {"http400", "http401", "http403"} =>
                   /\ i = Len(calls)
                   /\ pc = "done"
                   /\ transport.outcome.kind = "raise"

C23_Witness ==
    /\ entry = "get_with_headers"
    /\ pc = "done"
    /\ Len(calls) = 3
    /\ calls[1].out = "http503"
    /\ calls[2].out = "timeout"
    /\ calls[3].out = "http400"
    /\ transport.outcome.exc = "SaxoAPIError"
    /\ transport.outcome.status_code = 400

\* ---------------------------------------------------------------------
\* C24: one call of get_with_headers makes at most max_retries + 1 requests and
\* then returns or raises; when the last of max_retries + 1 requests failed
\* with 429, a 5xx status, a timeout or a connection error, the error raised
\* carries the rate limit information of the last response seen.
BudgetExhausted ==
    /\ entry = "get_with_headers"
    /\ pc = "done"
    /\ Len(calls) = transport.max_retries + 1
    /\ calls[Len(calls)].out \in RetriedOutcomes

C24_ExhaustionCarriesSnapshot ==
    /\ entry = "get_with_headers" =>
           /\ Len(calls) <= transport.max_retries + 1
           /\ (pc = "done") = (transport.outcome.kind \in {"return", "raise"})
    /\ BudgetExhausted =>
           /\ transport.outcome.kind = "raise"
           /\ transport.outcome.rate_limit_info = transport.last_rate_info

\* ---------------------------------------------------------------------
\* C25: the delay before a retry is the numeric Retry-After value when the
\* response has one; otherwise the smallest reset above zero among the rate
\* limit dimensions plus one second, resets of zero or less being ignored;
\* otherwise the exponential backoff.
DelayAfterResponse ==
    /\ entry = "get_with_headers"
    /\ Len(calls) > 0
    /\ calls[Len(calls)].out \in {"http429", "http500", "http502", "http503", "http504"}

C25_DelayPriority ==
    DelayAfterResponse =>
        LET positive == {p[2] : p \in {q \in transport.last_rate_info : q[2] > 0}}
        IN  IF transport.response_retry_after.kind = "numeric"
            THEN transport.delay
                     = RetryDelay("retry_after",
                                  HalfSeconds(transport.response_retry_after.value))
            ELSE IF positive # {}
            THEN transport.delay = RetryDelay("reset", HalfSeconds(Min(positive) + 1))
            ELSE transport.delay.source = "backoff"

\* ---------------------------------------------------------------------
\* C26: whichever request method was called, the error it raises tells the
\* cause: SaxoAuthenticationError after status 401 or 403, SaxoRateLimitError
\* after a 429 that is not retried any more, SaxoAPIError with the status code
\* after another error status, and an error without status code after a
\* timeout or a connection failure.
TransportRaised ==
    /\ TransportCall
    /\ pc = "done"
    /\ transport.outcome.kind = "raise"

C26_TerminalErrorsClassified ==
    TransportRaised =>
        LET last == calls[Len(calls)].out
            error == transport.outcome
        IN  /\ last \in {"http401", "http403"} => error.exc = "SaxoAuthenticationError"
            /\ last = "http429" => error.exc = "SaxoRateLimitError"
            /\ last \in {"http400", "http404", "http500", "http502", "http503", "http504"} =>
                   /\ error.exc = "SaxoAPIError"
                   /\ error.status_code = HttpStatusOf(last)
            /\ last \in {"timeout", "connection_error"} =>
                   /\ error.exc = "SaxoAPIError"
                   /\ error.status_code = 0

\* ---------------------------------------------------------------------
\* C27: execute_precheck returns a PrecheckOutcome whatever happens: after a
\* 200 answer with ErrorInfo, ok is false and the error is the embedded one;
\* after a 200 answer without ErrorInfo, ok is true; after a transport failure,
\* ok is false and the error code is the transport's.
PrecheckReturned ==
    /\ entry = "execute_precheck"
    /\ pc = "done"

C27_PrecheckOutcomeByAnswer ==
    PrecheckReturned =>
        LET last == calls[Len(calls)].out
            embedded == precheck_result.raw_response.ErrorInfo
        IN  IF last \in {"json", "empty"}
            THEN IF embedded \in {"InsufficientFunds", "no_code"}
                 THEN /\ ~precheck_result.ok
                      /\ precheck_result.error_info.error_code
                             = (IF embedded = "no_code" THEN "UNKNOWN" ELSE embedded)
                 ELSE precheck_result.ok
            ELSE /\ ~precheck_result.ok
                 /\ precheck_result.error_info.error_code
                        \in {"HTTP_ERROR", "TIMEOUT", "EXCEPTION"}

\* ---------------------------------------------------------------------
\* C28: the precheck is submitted again only after a failure whose status is
\* 429, 500, 502, 503 or 504, and at most max_retries times; a business
\* rejection and a failure with status 400, 401 or 403 are returned after the
\* one submission.
PrecheckPosts == CountCalls(calls, "POST", PrecheckPath)

C28_PrecheckRetriesOnlyRetryable ==
    entry = "execute_precheck" =>
        /\ PrecheckPosts <= precheck_max_retries + 1
        /\ \A i \in 1..(Len(calls) - 1) : calls[i].out \in {"http429", "http500"}
        /\ \A i \in 1..Len(calls) :
               calls[i].out \in {"http400", "http401", "http403"} =>
                   i = 1 /\ Len(calls) = 1 /\ pc = "done"

\* ---------------------------------------------------------------------
\* The reconciliation query of the running place_order came back; the orders of
\* its answer that the query was about: by order id the ones the venue returned
\* for that id, otherwise the ones carrying the intent's external reference.
Reconciled ==
    /\ entry = "place_order"
    /\ pc = "done"
    /\ orders_data.kind # None

Matches ==
    IF placement_outcome.order_id # None THEN DOMAIN orders_data.Data
    ELSE {i \in DOMAIN orders_data.Data :
              orders_data.Data[i].ExternalReference = intent.external_reference}

MatchedOrder == orders_data.Data[CHOOSE i \in Matches : \A j \in Matches : i <= j]

\* C29: an uncertain placement is looked up by the order id its outcome
\* carries, else by the external reference; a match gives the status mapped
\* from the order's and the order's id as the result's order id, no match gives
\* not_found, a failed query query_failed; and a placement POST that timed out
\* is reconciled: with the order found Working the final status is success and
\* the outcome holds the reconciliation.
C29_ReconciliationOfUncertain ==
    /\ Reconciled =>
           IF orders_data.kind = "raise" THEN reconciliation.status = "query_failed"
           ELSE IF Matches = {} THEN reconciliation.status = "not_found"
           ELSE /\ reconciliation.status
                       \in {"found_working", "found_filled", "found_cancelled"}
                /\ execution_outcome.order_id
                       = (IF placement_outcome.order_id # None
                          THEN placement_outcome.order_id ELSE MatchedOrder.OrderId)
    /\ (entry = "place_order" /\ pc = "done" /\ response_data.raw = "timeout") =>
           /\ orders_data.kind # None
           /\ execution_outcome.reconciliation # NoReconciliation
           /\ (Matches # {} /\ MatchedOrder.Status = "Working") =>
                   execution_outcome.final_status = "success"

\* ---------------------------------------------------------------------
\* C30: on both reconciliation paths the status of the order found maps so:
\* Working to found_working; Filled and FillAndStore to found_filled; Cancelled
\* and Rejected to found_cancelled; every other status, a missing one too, to
\* found_working.
C30_OrderStatusMapping ==
    (Reconciled /\ orders_data.kind = "data" /\ Matches # {}) =>
        LET st == MatchedOrder.Status
        IN  reconciliation.status =
                (IF st = "Working" THEN "found_working"
                 ELSE IF st \in {"Filled", "FillAndStore"} THEN "found_filled"
                 ELSE IF st \in {"Cancelled", "Rejected"} THEN "found_cancelled"
                 ELSE "found_working")

C30_Witness ==
    /\ Reconciled
    /\ placement_outcome.order_id = None
    /\ Matches # {}
    /\ MatchedOrder.Status = "Expired"
    /\ reconciliation.status = "found_working"

\* ---------------------------------------------------------------------
\* C31: execute of a Buy of 100 with dry_run false, the instrument tradable and
\* open, no position held, the precheck successful and without disclaimers,
\* returns; it has sent one placement POST, and when that POST was answered
\* with an order id and no error the status is success with that order id.
BuyScenario ==
    /\ entry = "execute"
    /\ pc = "done"
    /\ ~dry_run
    /\ intent.buy_sell = "Buy"
    /\ intent.amount = 100
    /\ precheck_result.ok
    /\ precheck_result.pre_trade_disclaimers.disclaimer_tokens = <<>>

C31_BuyEndToEnd ==
    BuyScenario =>
        /\ result.kind = "return"
        /\ PlacementPosts = 1
        /\ (/\ response_data.raw = "json"
            /\ response_data.data.ErrorInfo = "absent"
            /\ response_data.data.OrderId # None)
           => /\ result.status = "success"
              /\ result.order_id = response_data.data.OrderId

\* ---------------------------------------------------------------------
\* C32: the ExecutionResult execute builds from what place_order returned (the
\* precheck having succeeded, dry_run false) carries an error message whenever
\* its status is neither success nor dry_run.
PlacedAsByExecute ==
    /\ entry = "place_order"
    /\ pc = "done"
    /\ ~dry_run
    /\ precheck_result.ok

C32_ErrorMessagePresent ==
    PlacedAsByExecute =>
        LET r == ResultOfPlacement(execution_outcome)
        IN  r.status \notin {"success", "dry_run"} => r.error_message \notin {None, ""}

\* ---------------------------------------------------------------------
\* C33: with an increment above zero (and no minimum trade size in the way)
\* validate_amount accepts a quantity exactly when the quantity is a multiple of
\* the increment: a quantity 1e-11 beside a multiple is no multiple.
C33_AcceptsExactMultiplesOnly ==
    (/\ entry = "validate_amount"
     /\ pc = "done"
     /\ calc.args.increment_size > 0
     /\ calc.args.minimum_trade_size = 0)
    => (calc.returned.ok
          <=> (/\ calc.args.whole % calc.args.increment_size = 0
               /\ calc.args.offset = 0))

\* ---------------------------------------------------------------------
\* C34: when neither Retry-After nor a reset header decides, the delay of every
\* attempt number and every draw of the jitter lies between 1 second and
\* MAX_BACKOFF_SECONDS, and its mean over the draws does not go down from one
\* attempt number to the next.
\* the delays of the draws lo..hi of one attempt number, added up
RECURSIVE SumBackoff(_, _, _)
SumBackoff(attempt, lo, hi) ==
    IF lo = hi THEN GetBestRetryDelay(NoRetryAfter, {}, attempt, lo).delay
    ELSE LET mid == lo + ((hi - lo) \div 2)
         IN  SumBackoff(attempt, lo, mid) + SumBackoff(attempt, mid + 1, hi)

HalfRange(attempt) == HalfSeconds(BASE_BACKOFF_SECONDS * Pow2(attempt)) \div 2

\* mean(attempt) <= mean(attempt + 1), the two sums brought to one denominator
MeanNotDecreasing(attempt) ==
    SumBackoff(attempt, -HalfRange(attempt), HalfRange(attempt))
            * Cardinality(AllJitters(attempt + 1))
        <= SumBackoff(attempt + 1, -HalfRange(attempt + 1), HalfRange(attempt + 1))
            * Cardinality(AllJitters(attempt))

BackoffReturned ==
    /\ entry = "get_best_retry_delay"
    /\ pc = "done"
    /\ calc.returned.source = "backoff"

C34_BackoffWithinBounds ==
    BackoffReturned =>
        /\ calc.returned.delay >= HalfSeconds(1)
        /\ calc.returned.delay <= HalfSeconds(MAX_BACKOFF_SECONDS)
        /\ MeanNotDecreasing(calc.args.attempt)

C34_Witness ==
    /\ BackoffReturned
    /\ calc.args.attempt = 0
    /\ calc.args.jitter < 0
    /\ calc.returned.delay = HalfSeconds(1)

\* ---------------------------------------------------------------------
\* C35: within one execute the remote calls come in the order of the stages
\* (instrument, positions, precheck, disclaimers, placement, reconciliation);
\* execute is at a stage only when every earlier stage passed; orders are
\* queried only after a placement whose outcome requires reconciliation; and
\* reconciliation_needed is returned only after a placement POST.
StageOfPath(path) ==
    IF path = InstrumentPath THEN 1
    ELSE IF path = NetPositionsPath THEN 2
    ELSE IF path = PrecheckPath THEN 3
    ELSE IF path = DisclaimerPath THEN 4
    ELSE IF path = PlacementPath THEN 5
    ELSE 6

StageOfPc ==
    IF pc = "validate" THEN 1
    ELSE IF pc = "guard" THEN 2
    ELSE IF pc = "precheck" THEN 3
    ELSE IF pc \in {"disc_fetch", "disc_accept"} THEN 4
    ELSE IF pc = "place" THEN 5
    ELSE IF pc = "reconcile" THEN 6
    ELSE 0

\* the stage execute is at, or that of its latest call
ReachedStage ==
    IF StageOfPc > 0 \/ calls = <<>> THEN StageOfPc
    ELSE StageOfPath(calls[Len(calls)].path)

C36_ConcurrentBuyBlockedWhenUnknown ==
    \A t \in Threads :
        (/\ threads[t].pc = "done"
         /\ threads[t].query = "failed"
         /\ ~threads[t].positions.has_row
         /\ guard_cfg.block_on_position_failure)
            => ~threads[t].result.allowed

\* ---------------------------------------------------------------------
\* "Amount" of the payloads _build_precheck_payload and _build_order_payload
\* make of an intent.
PayloadAmount(order_intent) == order_intent.amount

\* C37: when the guard allows a Sell, no precheck or placement request of that
\* execute carries an amount above the net position the guard saw.
C37_SellPayloadWithinPosition ==
    (entry = "execute" /\ intent.buy_sell = "Sell" /\ guard_result.allowed) =>
        \A i \in 1..Len(calls) :
            calls[i].path \in {PrecheckPath, PlacementPath}
                => PayloadAmount(intent) <= returned_positions.net_quantity

\* ---------------------------------------------------------------------
\* The requests that carry an x-request-id header: precheck and placement
\* POSTs, and the POSTs that accept a disclaimer.
CarriesRequestId(c) ==
    c.method = "POST" /\ c.path \in {PrecheckPath, PlacementPath, DisclaimerPath}

\* C38: no two of these requests carry the same x-request-id, the retries of
\* one precheck and the precheck of an intent that was executed before
\* included.
C38_RequestIdsFresh ==
    \A i, j \in 1..Len(calls) :
        (i < j /\ CarriesRequestId(calls[i]) /\ CarriesRequestId(calls[j]))
            => calls[i].req # calls[j].req

\* ---------------------------------------------------------------------
\* C39: a lookup in the instrument cache or the disclaimer cache younger than
\* the TTL returns the cached value and calls nothing; a lookup with no entry
\* or one as old as the TTL or older calls the venue and puts a whole new entry
\* in place of the old one; a fetch that fails leaves the cache as it was.
InstrumentLookup ==
    (pc = "validate" /\ pc' # "validate") =>
        IF inst_cache.present /\ now - inst_cache.cached_at < instrument_cache_ttl
        THEN /\ calls' = calls
             /\ inst_cache' = inst_cache
             /\ entry # "execute" =>
                    calc'.returned = ValidateAgainst(inst_cache.constraints, intent)
        ELSE /\ Len(calls') = Len(calls) + 1
             /\ LET c == calls'[Len(calls')]
                IN  /\ IsCall(c, "GET", InstrumentPath)
                    /\ c.out = "raise" => inst_cache' = inst_cache
                    /\ c.out # "raise" =>
                           \E resp \in InstrumentResponses :
                               /\ resp.kind = c.out
                               /\ inst_cache' = [present |-> TRUE,
                                                 constraints |-> ParseInstrumentDetails(resp),
                                                 cached_at |-> now]

DisclaimerLookup ==
    (pc = "disc_fetch" /\ details_list' # details_list) =>
        LET tok == precheck_result.pre_trade_disclaimers.disclaimer_tokens[disc_i]
            got == details_list'[Len(details_list')]
        IN  IF disc_cache[tok].present
               /\ now - disc_cache[tok].cached_at < disclaimer_cache_ttl_seconds
            THEN /\ calls' = calls
                 /\ disc_cache' = disc_cache
                 /\ got = disc_cache[tok].details
            ELSE /\ Len(calls') = Len(calls) + 1
                 /\ LET c == calls'[Len(calls')]
                    IN  /\ IsCall(c, "GET", DisclaimerPath)
                        /\ c.arg = tok
                        /\ c.out = "failed" => disc_cache' = disc_cache
                        /\ c.out # "failed" =>
                               disc_cache' = [disc_cache EXCEPT ![tok] =
                                                 [present |-> TRUE, details |-> got,
                                                  cached_at |-> now]]

C39_CacheLifecycle == [][InstrumentLookup /\ DisclaimerLookup]_vars

\* Constraints fetched half a TTL ago were used again, with no call.
C39_Witness ==
    /\ entry = "validate_order_intent"
    /\ pc = "done"
    /\ calls = <<>>
    /\ inst_cache.present
    /\ now - inst_cache.cached_at = TickSeconds
    /\ TickSeconds < instrument_cache_ttl
    /\ calc.returned = ValidateAgainst(inst_cache.constraints, intent)

\* ---------------------------------------------------------------------
\* C40: a placement POST answered with status 200 is a success only when the
\* body has no ErrorInfo and has an order id, OrderId or that of the first of
\* Orders; a body with neither ErrorInfo nor an order id is uncertain with
\* reconciliation required, and the orders are then matched by external
\* reference.
Answered200 ==
    /\ entry = "place_order"
    /\ response_data.raw \in {"json", "empty"}
    /\ placement_outcome.status # None

BodyOrderId ==
    IF response_data.data.OrderId # None THEN response_data.data.OrderId
    ELSE IF Len(response_data.data.Orders) > 0 THEN response_data.data.Orders[1]
    ELSE None

SameReference ==
    {i \in DOMAIN orders_data.Data :
         orders_data.Data[i].ExternalReference = intent.external_reference}

C40_SuccessNeedsOrderId ==
    Answered200 =>
        /\ placement_outcome.status = "success" =>
               /\ response_data.data.ErrorInfo = "absent"
               /\ BodyOrderId # None
               /\ placement_outcome.order_id = BodyOrderId
        /\ (response_data.data.ErrorInfo = "absent" /\ BodyOrderId = None) =>
               /\ placement_outcome.status = "uncertain"
               /\ placement_outcome.requires_reconciliation
               /\ pc = "done" =>
                      /\ ReconciliationQueries = 1
                      /\ IF orders_data.kind = "raise"
                         THEN reconciliation.status = "query_failed"
                         ELSE IF SameReference = {}
                         THEN reconciliation.status = "not_found"
                         ELSE reconciliation.order_id
                                  = orders_data.Data[CHOOSE i \in SameReference :
                                         \A j \in SameReference : i <= j].OrderId

\* No error and no order id in the body; of the two orders the venue lists, the
\* second carries the intent's reference and is the one found.
C40_Witness ==
    /\ Answered200
    /\ pc = "done"
    /\ response_data.raw = "json"
    /\ response_data.data.ErrorInfo = "absent"
    /\ BodyOrderId = None
    /\ placement_outcome.status = "uncertain"
    /\ Len(orders_data.Data) = 2
    /\ reconciliation.order_id = "ord9"

====
